---- MODULE Spec2Model ----
(***************************************************************************)
(* Verification model of the Fisher-information engine of madminer         *)
(* (src/madminer/fisherinformation.py).                                    *)
(*                                                                         *)
(* Two groups of operations are modelled, each with its own                *)
(* specification over the same variables:                                  *)
(*   SpecLinAlg  project_information / profile_information                 *)
(*   SpecEngine  FisherInformation: _calculate_fisher_information and the  *)
(*               batch loops of the streaming aggregations                 *)
(* Matrices are sequences of rows (1-based in the model, 0-based index     *)
(* values as in the source).                                               *)
(***************************************************************************)
EXTENDS Integers, Sequences, FiniteSets, TLC

VARIABLES
    \* -- callers of project_information / profile_information
    la_pc,                  \* "idle" | "done": position of the linear-algebra caller
    la_call,                \* "none" | "project" | "profile": the function that was called
    fisher_information,     \* the caller's input matrix (argument of both functions)
    remaining_components,   \* the caller's list of kept indices
    la_result,              \* [status, value]: what the call returned or raised
    \* -- the FisherInformation engine: fields set at construction
    settings,               \* what load_madminer_settings finds in the file:
                            \*   [morphing_matrix, morphing_components (FALSE: None),
                            \*    include_nuisance_parameters]
    morpher,                \* self.morpher: NoMorpher (None) or [components_set, basis_set]
    morphing,               \* what the Reweighter returns for the requested theta:
                            \*   [theta_matrix (B), dtheta_matrix (P x B)]
    event_file,             \* the events of madminer_filename: sequence of [obs, w]
    \* -- arguments of the current request
    luminosity,
    cuts,                   \* list of cut expressions
    efficiency_functions,   \* list of efficiency expressions
    observable,             \* the expression of the histogrammed observable
    \* -- progress of the current request
    pc,                     \* "unconstructed" | "construction_failed" | "idle" |
                            \*   "idle_nuisance" | "streaming" | "done" | "error"
    op,                     \* "none" | "tensor" | "tensor_nuisance" | "full_detector" | "xsec" | "rate" | "full_truth" | "hist1d"
                            \*   | "histogram_of_information"
    position,               \* number of events of event_file already yielded by the loader
    batch_in,               \* the batch the loader yielded last (before cuts)
    weights,                \* that batch's weights after cuts and efficiencies
    call,                   \* the last invocation of _calculate_fisher_information:
                            \*   [made, weights_benchmarks, sum_events, calculate_uncertainty, result]
    acc,                    \* the running totals of the request (fields depend on op)
    result,                 \* [status, value]: what the request returned or raised
    previous,               \* the first request that returned to the caller:
                            \*   [op, args, result]
    \* -- an Observable of models/readers.py under construction
    reader                  \* [pc, args, fields, evaluations, invocations, raised]

la_vars == <<la_pc, la_call, fisher_information, remaining_components, la_result>>

engine_vars == <<settings, morpher, morphing, event_file, luminosity, cuts,
                 efficiency_functions, observable,
                 pc, op, position, batch_in, weights, call, acc, result, previous,
                 reader>>

vars == <<la_pc, la_call, fisher_information, remaining_components, la_result,
          settings, morpher, morphing, event_file, luminosity, cuts, efficiency_functions,
          observable, pc, op, position, batch_in, weights, call, acc, result, previous,
          reader>>

----------------------------------------------------------------------------
(* Bounds of the model *)

\* largest matrix dimension n of a projected / profiled matrix
MaxDim == 3

\* entries of the input matrices of project / profile
EntryValues == {0, 1}

\* largest number of events in the event file
MaxEvents == 2

\* largest number of events the event loader yields per batch
BatchSize == 2

\* number of histogram bins requested (nbins), overflow bins not counted
NBins == 2

----------------------------------------------------------------------------
(* Generic helpers *)

Range(s) == {s[i] : i \in 1..Len(s)}

RECURSIVE SumSeq(_)
SumSeq(s) == IF Len(s) = 0 THEN 0 ELSE s[1] + SumSeq(Tail(s))

\* sequences over S of length 0..n
SeqsUpTo(S, n) == UNION {[1..k -> S] : k \in 0..n}

Injective(s) == \A i, j \in 1..Len(s) : i # j => s[i] # s[j]

\* n x n matrices with entries in S, as sequences of rows
SquareMatrices(n, S) == [1..n -> [1..n -> S]]

\* the n x n input matrices: a Fisher information is symmetric; the matrix
\* with n * n distinct entries tells every position from every other
SymmetricMatrices(n, S) ==
    {M \in SquareMatrices(n, S) : \A i \in 1..n : \A j \in 1..n : M[i][j] = M[j][i]}

DistinctEntriesMatrix(n) == [i \in 1..n |-> [j \in 1..n |-> (i - 1) * n + j]]

InputMatrices(n, S) == SymmetricMatrices(n, S) \cup {DistinctEntriesMatrix(n)}

NoValue == <<>>

Returned(v) == [status |-> "ok", value |-> v]

Raised(e) == [status |-> e, value |-> NoValue]

----------------------------------------------------------------------------
(* numpy semantics used by project_information / profile_information *)

\* a Python / numpy index k into an axis of length n: negative indices wrap
IndexOk(k, n) == -n <= k /\ k < n

NormIndex(k, n) == IF k < 0 THEN k + n ELSE k

\* a[xold, yold] with two integers, on a 2-D array a (0-based)
Item2(a, xold, yold) == a[NormIndex(xold, Len(a)) + 1][NormIndex(yold, Len(a)) + 1]

\* shape of the result of broadcasting two 1-D index arrays, -1 if they do not broadcast
BroadcastLen(lr, lc) ==
    IF lr = lc THEN lr
    ELSE IF lr = 1 THEN lc
    ELSE IF lc = 1 THEN lr
    ELSE -1

\* a[rows, cols] with two integer lists (numpy integer-array indexing): the
\* index arrays are broadcast against each other and paired element by
\* element; the result is the ONE-dimensional array of a[rows[i], cols[i]]
FancyIndex(a, rows, cols) ==
    LET n   == Len(a)
        len == BroadcastLen(Len(rows), Len(cols))
        r(i) == rows[IF Len(rows) = 1 THEN 1 ELSE i]
        c(i) == cols[IF Len(cols) = 1 THEN 1 ELSE i]
    IN  IF len < 0 THEN [status |-> "IndexError", ndim |-> 0, data |-> <<>>]
        ELSE IF \E i \in 1..len : ~IndexOk(r(i), n) \/ ~IndexOk(c(i), n)
             THEN [status |-> "IndexError", ndim |-> 0, data |-> <<>>]
        ELSE [status |-> "ok", ndim |-> 1,
              data |-> [i \in 1..len |-> Item2(a, r(i), c(i))]]

----------------------------------------------------------------------------
(* Floating-point values.  A value is a fraction [n, d]: d > 0 is the     *)
(* finite number n/d in lowest terms, d = 0 is +inf (n = 1), -inf (n = -1) *)
(* or NaN (n = 0).  Arithmetic follows IEEE 754 on the special values and  *)
(* is exact on the finite ones (no rounding, no overflow).                 *)

Abs(i) == IF i < 0 THEN -i ELSE i

Sign(i) == IF i < 0 THEN -1 ELSE IF i > 0 THEN 1 ELSE 0

RECURSIVE GCD(_, _)
GCD(a, b) == IF b = 0 THEN a ELSE GCD(b, a % b)

NaN == [n |-> 0, d |-> 0]

PosInf == [n |-> 1, d |-> 0]

NegInf == [n |-> -1, d |-> 0]

\* the finite number num/den (den # 0) in lowest terms
Frac(num, den) ==
    LET g == GCD(Abs(num), Abs(den))
    IN  [n |-> Sign(den) * (num \div g), d |-> Abs(den) \div g]

FromInt(i) == [n |-> i, d |-> 1]

Zero == [n |-> 0, d |-> 1]

IsNaN(x) == x.d = 0 /\ x.n = 0

IsInf(x) == x.d = 0 /\ x.n # 0

IsFinite(x) == x.d > 0

IsZero(x) == x.d > 0 /\ x.n = 0

XNeg(x) == [n |-> -x.n, d |-> x.d]

XMul(x, y) ==
    IF IsNaN(x) \/ IsNaN(y) THEN NaN
    ELSE IF IsInf(x) \/ IsInf(y)
         THEN IF x.n = 0 \/ y.n = 0 THEN NaN                \* inf * 0
              ELSE [n |-> Sign(x.n) * Sign(y.n), d |-> 0]
    ELSE Frac(x.n * y.n, x.d * y.d)

XAdd(x, y) ==
    IF IsNaN(x) \/ IsNaN(y) THEN NaN
    ELSE IF IsInf(x) /\ IsInf(y) THEN (IF x.n = y.n THEN x ELSE NaN)   \* inf - inf
    ELSE IF IsInf(x) THEN x
    ELSE IF IsInf(y) THEN y
    ELSE Frac(x.n * y.d + y.n * x.d, x.d * y.d)

XSub(x, y) == XAdd(x, XNeg(y))

\* 1.0 / x on a numpy array element: division by zero gives inf (a warning,
\* no exception); the sign of a zero is not tracked
XRecip(x) ==
    IF IsNaN(x) THEN NaN
    ELSE IF IsInf(x) THEN Zero
    ELSE IF x.n = 0 THEN PosInf
    ELSE Frac(x.d, x.n)

\* x < 0, x >= 0 as IEEE comparisons (every comparison with NaN is false)
XNegative(x) == x.n < 0

XNonNegative(x) == ~IsNaN(x) /\ x.n >= 0

\* x < y as an IEEE comparison
XLess(x, y) ==
    IF IsNaN(x) \/ IsNaN(y) \/ x = y THEN FALSE
    ELSE IF x = NegInf \/ y = PosInf THEN TRUE
    ELSE IF x = PosInf \/ y = NegInf THEN FALSE
    ELSE x.n * y.d < y.n * x.d

RECURSIVE XSum(_)
XSum(s) == IF Len(s) = 0 THEN Zero ELSE XAdd(s[1], XSum(Tail(s)))

----------------------------------------------------------------------------
(* Determinant and inverse of a small integer matrix (np.linalg.inv) *)

RemoveAt(s, i) == [k \in 1..(Len(s) - 1) |-> IF k < i THEN s[k] ELSE s[k + 1]]

Minor(A, i, j) == [r \in 1..(Len(A) - 1) |-> RemoveAt(RemoveAt(A, i)[r], j)]

RECURSIVE Det(_)
Det(A) ==
    IF Len(A) = 0 THEN 1
    ELSE IF Len(A) = 1 THEN A[1][1]
    ELSE SumSeq([j \in 1..Len(A) |->
                    (IF j % 2 = 1 THEN 1 ELSE -1) * A[1][j] * Det(Minor(A, 1, j))])

Cofactor(A, i, j) == (IF (i + j) % 2 = 0 THEN 1 ELSE -1) * Det(Minor(A, i, j))

\* np.linalg.inv(a): a must have at least two dimensions and be square and
\* non-singular, otherwise numpy raises LinAlgError
NpLinalgInv(a) ==
    IF a.ndim < 2 THEN [status |-> "LinAlgError", ndim |-> 0, data |-> <<>>]
    ELSE IF \E r \in 1..Len(a.data) : Len(a.data[r]) # Len(a.data)
         THEN [status |-> "LinAlgError", ndim |-> 0, data |-> <<>>]
    ELSE IF Det(a.data) = 0 THEN [status |-> "LinAlgError", ndim |-> 0, data |-> <<>>]
    ELSE [status |-> "ok", ndim |-> 2,
          data |-> [i \in 1..Len(a.data) |-> [j \in 1..Len(a.data) |->
                       Frac(Cofactor(a.data, j, i), Det(a.data))]]]

\* inverse.dot(mix) for a 2-D array and a 1-D array, then mix.T.dot(...) for
\* two 1-D arrays (the transpose of a 1-D array is itself): a scalar
NpMatVec(inv, v) ==
    [i \in 1..Len(inv) |-> XSum([j \in 1..Len(v) |-> XMul(inv[i][j], FromInt(v[j]))])]

NpVecVec(v, w) == XSum([i \in 1..Len(v) |-> XMul(FromInt(v[i]), w[i])])

----------------------------------------------------------------------------
(* project_information *)

\* the indices 0..n-1 that are (not) listed in remaining_components, ascending
RECURSIVE FilterRange(_, _, _, _)
FilterRange(i, n, S, wanted) ==
    IF i >= n THEN <<>>
    ELSE (IF (i \in S) = wanted THEN <<i>> ELSE <<>>) \o FilterRange(i + 1, n, S, wanted)

\* variant: the columns are taken in ascending index order, not in the given order
project_information_sorted_columns(fisher_information_, remaining_components_) ==
    IF \E i \in 1..Len(remaining_components_) :
           ~IndexOk(remaining_components_[i], Len(fisher_information_))
    THEN Raised("IndexError")
    ELSE LET sorted == FilterRange(0, Len(fisher_information_),
                                   Range(remaining_components_), TRUE)
         IN  Returned([xnew \in 1..Len(remaining_components_) |->
                        [ynew \in 1..Len(remaining_components_) |->
                            Item2(fisher_information_,
                                  remaining_components_[xnew],
                                  IF ynew <= Len(sorted) THEN sorted[ynew]
                                  ELSE remaining_components_[ynew])]])

project_information(fisher_information_, remaining_components_) ==
    IF \E i \in 1..Len(remaining_components_) :
           ~IndexOk(remaining_components_[i], Len(fisher_information_))
    THEN Raised("IndexError")
    ELSE Returned([xnew \in 1..Len(remaining_components_) |->
                    [ynew \in 1..Len(remaining_components_) |->
                        Item2(fisher_information_,
                              remaining_components_[xnew],
                              remaining_components_[ynew])]])

----------------------------------------------------------------------------
(* profile_information (covariance = None: central value only) *)

remaining_components_checked(n_components, remaining_components_) ==
    FilterRange(0, n_components, Range(remaining_components_), TRUE)

profiled_components(n_components, remaining_components_) ==
    FilterRange(0, n_components, Range(remaining_components_), FALSE)

\* variant: the nuisance block is never inverted, the physical block is returned
_profile_without_inverse(information_in, remaining_components_, profiled_components_) ==
    Returned(FancyIndex(information_in, remaining_components_, remaining_components_).data)

_profile(information_in, remaining_components_, profiled_components_) ==
    LET information_phys     == FancyIndex(information_in, remaining_components_, remaining_components_)
        information_mix      == FancyIndex(information_in, profiled_components_, remaining_components_)
        information_nuisance == FancyIndex(information_in, profiled_components_, profiled_components_)
        inverse_information_nuisance == NpLinalgInv(information_nuisance)
    IN  IF information_phys.status # "ok" THEN Raised(information_phys.status)
        ELSE IF information_mix.status # "ok" THEN Raised(information_mix.status)
        ELSE IF information_nuisance.status # "ok" THEN Raised(information_nuisance.status)
        ELSE IF inverse_information_nuisance.status # "ok"
             THEN Raised(inverse_information_nuisance.status)
        ELSE IF Len(inverse_information_nuisance.data) # Len(information_mix.data)
             THEN Raised("ValueError")
        ELSE LET s == NpVecVec(information_mix.data,
                               NpMatVec(inverse_information_nuisance.data, information_mix.data))
             IN  Returned([i \in 1..Len(information_phys.data) |->
                              XSub(FromInt(information_phys.data[i]), s)])

profile_information(fisher_information_, remaining_components_) ==
    LET n_components == Len(fisher_information_)
        n_remaining_components == Len(remaining_components_)
    IN  IF n_remaining_components
              # Len(remaining_components_checked(n_components, remaining_components_))
        THEN Raised("AssertionError")
        ELSE _profile(fisher_information_, remaining_components_,
                      profiled_components(n_components, remaining_components_))

----------------------------------------------------------------------------
(* Expressions: cuts, efficiencies and observables are Python expressions  *)
(* evaluated with eval() in a scope holding the observables of one event.  *)
(* An expression is [kind, name, c]:                                       *)
(*   "gt"    name > c        "lt"   name < c                               *)
(*   "var"   name            "const" c                                     *)
(*   "call"  name(c)                                                       *)
(* A Python bool is the number 1 (True) or 0 (False).                      *)

Expr(kind, name, c) == [kind |-> kind, name |-> name, c |-> c]

\* self.observables: the names of the observables of the event file
observables == <<"a">>

\* the scope of eval(): observable name -> value of the event
Variables(observations) ==
    [name \in Range(observables) |->
        observations[CHOOSE k \in 1..Len(observables) : observables[k] = name]]

\* names that eval() resolves besides those of its scope: Python puts
\* __builtins__ into a globals dictionary that lacks it.  One builtin that is
\* no math function stands for all of them.
builtins == {"bool"}

\* eval(expression, variables)
Eval(expression, variables) ==
    IF expression.kind # "const" /\ expression.name \notin (DOMAIN variables \cup builtins)
    THEN Raised("NameError")
    ELSE CASE expression.kind = "const" -> Returned(expression.c)
           [] expression.kind = "call"  ->     \* bool(c)
                Returned(IF IsZero(expression.c) THEN Zero ELSE FromInt(1))
           [] expression.kind = "var"   -> Returned(variables[expression.name])
           [] expression.kind = "gt"    ->
                Returned(IF XLess(expression.c, variables[expression.name])
                         THEN FromInt(1) ELSE Zero)
           [] expression.kind = "lt"    ->
                Returned(IF XLess(variables[expression.name], expression.c)
                         THEN FromInt(1) ELSE Zero)

\* bool(x) of a Python number: every value but zero is true (NaN included)
PyBool(x) == ~IsZero(x)

\* the loop over the cuts: the first cut that is false ends it
RECURSIVE CutsLoop(_, _)
CutsLoop(variables, cuts_) ==
    IF Len(cuts_) = 0 THEN Returned(TRUE)
    ELSE LET v == Eval(cuts_[1], variables)
         IN  IF v.status # "ok" THEN Raised(v.status)
             ELSE IF ~PyBool(v.value) THEN Returned(FALSE)
             ELSE CutsLoop(variables, Tail(cuts_))

\* variant: only the first cut of the list is checked
_pass_cuts_first_only(observations, cuts_) ==
    IF Len(observations) # Len(observables) THEN Raised("AssertionError")
    ELSE CutsLoop(Variables(observations), SubSeq(cuts_, 1, IF Len(cuts_) > 0 THEN 1 ELSE 0))

_pass_cuts(observations, cuts_) ==
    IF Len(observations) # Len(observables) THEN Raised("AssertionError")
    ELSE CutsLoop(Variables(observations), cuts_)

\* the loop over the efficiency functions: efficiency *= float(eval(...))
RECURSIVE EfficiencyLoop(_, _, _)
EfficiencyLoop(variables, efficiency_functions_, efficiency) ==
    IF Len(efficiency_functions_) = 0 THEN Returned(efficiency)
    ELSE LET v == Eval(efficiency_functions_[1], variables)
         IN  IF v.status # "ok" THEN Raised(v.status)
             ELSE EfficiencyLoop(variables, Tail(efficiency_functions_),
                                 XMul(efficiency, v.value))

_eval_efficiency(observations, efficiency_functions_) ==
    IF Len(observations) # Len(observables) THEN Raised("AssertionError")
    ELSE EfficiencyLoop(Variables(observations), efficiency_functions_, FromInt(1))

_eval_observable(observations, observable_definition) ==
    IF Len(observations) # Len(observables) THEN Raised("AssertionError")
    ELSE Eval(observable_definition, Variables(observations))

\* the first exception among a list of results, "ok" if there is none
RECURSIVE FirstError(_)
FirstError(rs) ==
    IF Len(rs) = 0 THEN "ok"
    ELSE IF rs[1].status # "ok" THEN rs[1].status
    ELSE FirstError(Tail(rs))

\* s[mask]: the elements of s at which the boolean mask is true, in order
RECURSIVE Select(_, _)
Select(s, mask) ==
    IF Len(s) = 0 THEN <<>>
    ELSE (IF mask[1] THEN <<s[1]>> ELSE <<>>) \o Select(Tail(s), Tail(mask))

ScaleVector(w, f) == [b \in 1..Len(w) |-> XMul(w[b], f)]

\* The head of every batch loop:
\*     cut_filter = [self._pass_cuts(obs_event, cuts) for obs_event in observations]
\*     observations = observations[cut_filter];  weights = weights[cut_filter]
\*     efficiencies = np.array([self._eval_efficiency(obs_event, ...) for ...])
\*     weights *= efficiencies[:, np.newaxis]
\* Returns the surviving events [obs, w] with their weights rescaled.
CutsAndEfficiencies(batch, cuts_, efficiency_functions_) ==
    LET passed == [n \in 1..Len(batch) |-> _pass_cuts(batch[n].obs, cuts_)]
    IN  IF FirstError(passed) # "ok" THEN Raised(FirstError(passed))
        ELSE LET kept == Select(batch, [n \in 1..Len(batch) |-> passed[n].value])
                 efficiencies ==
                     [n \in 1..Len(kept) |-> _eval_efficiency(kept[n].obs, efficiency_functions_)]
             IN  IF FirstError(efficiencies) # "ok" THEN Raised(FirstError(efficiencies))
                 ELSE Returned([n \in 1..Len(kept) |->
                          [obs |-> kept[n].obs,
                           w   |-> ScaleVector(kept[n].w, efficiencies[n].value)]])

----------------------------------------------------------------------------
(* _calculate_fisher_information *)

Dot(u, v) == XSum([b \in 1..Len(u) |-> XMul(u[b], v[b])])

\* mdot(matrix, weights_benchmarks) for one event
mdot(row, w) == Dot(row, w)

\* sanitize_array: NaN and +-inf are replaced by 0, everything else is kept
sanitize_array(x) == IF IsFinite(x) THEN x ELSE Zero

sigma_of(theta_matrix, w) == mdot(theta_matrix, w)

inv_sigma_of(theta_matrix, w) == sanitize_array(XRecip(sigma_of(theta_matrix, w)))

dsigma_of(dtheta_matrix, i, w) == mdot(dtheta_matrix[i], w)

\* variant: the einsum without the factor luminosity
fisher_info_phys_no_luminosity(morphing_, w, luminosity_) ==
    [i \in 1..Len(morphing_.dtheta_matrix) |-> [j \in 1..Len(morphing_.dtheta_matrix) |->
        XMul(XMul(inv_sigma_of(morphing_.theta_matrix, w),
                  dsigma_of(morphing_.dtheta_matrix, i, w)),
             dsigma_of(morphing_.dtheta_matrix, j, w))]]

\* variant: np.einsum("n,in,in->nij", ...), the row's derivative taken twice
fisher_info_phys_in_in(morphing_, w, luminosity_) ==
    [i \in 1..Len(morphing_.dtheta_matrix) |-> [j \in 1..Len(morphing_.dtheta_matrix) |->
        XMul(luminosity_,
             XMul(XMul(inv_sigma_of(morphing_.theta_matrix, w),
                       dsigma_of(morphing_.dtheta_matrix, i, w)),
                  dsigma_of(morphing_.dtheta_matrix, i, w)))]]

\* luminosity * np.einsum("n,in,jn->nij", inv_sigma, dsigma, dsigma), one event
fisher_info_phys(morphing_, w, luminosity_) ==
    [i \in 1..Len(morphing_.dtheta_matrix) |-> [j \in 1..Len(morphing_.dtheta_matrix) |->
        XMul(luminosity_,
             XMul(XMul(inv_sigma_of(morphing_.theta_matrix, w),
                       dsigma_of(morphing_.dtheta_matrix, i, w)),
                  dsigma_of(morphing_.dtheta_matrix, j, w)))]]

ZeroMatrix(n) == [i \in 1..n |-> [j \in 1..n |-> Zero]]

MatAdd(A, B) == [i \in 1..Len(A) |-> [j \in 1..Len(A[i]) |-> XAdd(A[i][j], B[i][j])]]

\* np.sum(tensor, axis=0) of a sequence of P x P matrices
RECURSIVE MatSum(_, _)
MatSum(ms, n_parameters) ==
    IF Len(ms) = 0 THEN ZeroMatrix(n_parameters)
    ELSE MatAdd(ms[1], MatSum(Tail(ms), n_parameters))

\* include_nuisance_parameters = False.  With calculate_uncertainty the
\* function builds covariance_inputs = np.zeros((n_events, weights_benchmarks_phys,
\* weights_benchmarks_phys)): the shape holds arrays, and np.zeros raises TypeError.
_calculate_fisher_information(morphing_, weights_benchmarks, luminosity_, sum_events, calculate_uncertainty) ==
    LET fisher_info ==
            [n \in 1..Len(weights_benchmarks) |->
                fisher_info_phys(morphing_, weights_benchmarks[n], luminosity_)]
    IN  IF calculate_uncertainty THEN Raised("TypeError")
        ELSE IF sum_events THEN Returned(MatSum(fisher_info, Len(morphing_.dtheta_matrix)))
        ELSE Returned(fisher_info)

\* The statements after np.zeros (lines 1100-1119), as they are written.
\* covariance_inputs: the loop runs over zip(range(n_events),
\* range(n_benchmarks), range(n_benchmarks)), that is over the triples
\* (k, k, k); every other entry keeps the zero of np.zeros.
covariance_inputs(weights_benchmark_uncertainties) ==
    [i \in 1..Len(weights_benchmark_uncertainties) |->
        [b1 \in 1..Len(weights_benchmark_uncertainties[i]) |->
            [b2 \in 1..Len(weights_benchmark_uncertainties[i]) |->
                IF i = b1 /\ b1 = b2
                THEN XMul(weights_benchmark_uncertainties[i][b1],
                          weights_benchmark_uncertainties[i][b1])
                ELSE Zero]]]

\* temp1, temp2, temp3 of one event, each passed through sanitize_array
temp1(morphing_, w, i, j, b) ==
    sanitize_array(XMul(XMul(morphing_.dtheta_matrix[i][b],
                             dsigma_of(morphing_.dtheta_matrix, j, w)),
                        inv_sigma_of(morphing_.theta_matrix, w)))

temp2(morphing_, w, i, j, b) ==
    sanitize_array(XMul(XMul(morphing_.dtheta_matrix[j][b],
                             dsigma_of(morphing_.dtheta_matrix, i, w)),
                        inv_sigma_of(morphing_.theta_matrix, w)))

temp3(morphing_, w, i, j, b) ==
    sanitize_array(XMul(XMul(XMul(morphing_.theta_matrix[b],
                                  dsigma_of(morphing_.dtheta_matrix, i, w)),
                             dsigma_of(morphing_.dtheta_matrix, j, w)),
                        XMul(inv_sigma_of(morphing_.theta_matrix, w),
                             inv_sigma_of(morphing_.theta_matrix, w))))

\* jacobian = luminosity * (temp1 + temp2 + temp3), for one event: [i][j][b]
jacobian(morphing_, w, luminosity_) ==
    [i \in 1..Len(morphing_.dtheta_matrix) |-> [j \in 1..Len(morphing_.dtheta_matrix) |->
        [b \in 1..Len(morphing_.theta_matrix) |->
            XMul(luminosity_, XAdd(XAdd(temp1(morphing_, w, i, j, b),
                                        temp2(morphing_, w, i, j, b)),
                                   temp3(morphing_, w, i, j, b)))]]]

\* np.log, for the arguments at which the result is exact
XLog(x) ==
    CASE IsNaN(x)       -> NaN
      [] x = PosInf     -> PosInf
      [] XNegative(x)   -> NaN
      [] IsZero(x)      -> NegInf
      [] x = FromInt(1) -> Zero

\* a / b of two floats
XDiv(a, b) == XMul(a, XRecip(b))

\* variant: the combination of nuisance parameters and uncertainties is
\* computed and returned without any signal
_calculate_fisher_information_nuisance_silent(morphing_, weights_benchmarks, luminosity_, sum_events, calculate_uncertainty) ==
    Returned(<<>>)

\* include_nuisance_parameters = True.  The physical benchmarks come first,
\* weights_sampling_benchmark is None.  The (n_events, ., .) blocks are
\* assigned into slices of the two-dimensional np.zeros((n_all_parameters,
\* n_all_parameters)): numpy drops leading axes of length 1 only, so the
\* assignments raise ValueError unless n_events = 1 and, for the transposed
\* mixed block of shape (N, P, 1), N = P = 1.  The value returned is an array
\* [ndim, data].
_calculate_fisher_information_nuisance(morphing_, weights_benchmarks, luminosity_, sum_events, calculate_uncertainty) ==
    LET n_events == Len(weights_benchmarks)
        P        == Len(morphing_.dtheta_matrix)
        w        == weights_benchmarks[1]
        N        == Len(w) - Len(morphing_.theta_matrix)
        sigma    == sigma_of(morphing_.theta_matrix, w)
        dsigma   == dsigma_of(morphing_.dtheta_matrix, 1, w)
        log_nuisance_weight_ratio == XLog(XDiv(w[Len(w)], w[1]))
        fisher_info_nuisance ==
            XMul(luminosity_, XMul(sigma, XMul(log_nuisance_weight_ratio,
                                               log_nuisance_weight_ratio)))
        fisher_info_mix == XMul(luminosity_, XMul(dsigma, log_nuisance_weight_ratio))
        fisher_info ==
            << <<fisher_info_phys(morphing_, w, luminosity_)[1][1], fisher_info_mix>>,
               <<fisher_info_mix, fisher_info_nuisance>> >>
    IN  IF n_events # 1 THEN Raised("ValueError")
        ELSE IF ~(N = 1 /\ P = 1) THEN Raised("ValueError")
        ELSE IF calculate_uncertainty THEN Raised("TypeError")
        ELSE IF sum_events      \* np.sum(axis=0) of the two-dimensional array
             THEN Returned([ndim |-> 1,
                            data |-> [j \in 1..2 |-> XAdd(fisher_info[1][j], fisher_info[2][j])]])
        ELSE Returned([ndim |-> 2, data |-> fisher_info])

\* the record of an invocation
Call(weights_benchmarks, sum_events, calculate_uncertainty, r) ==
    [made |-> TRUE, weights_benchmarks |-> weights_benchmarks, sum_events |-> sum_events,
     calculate_uncertainty |-> calculate_uncertainty, result |-> r]

NoCall ==
    [made |-> FALSE, weights_benchmarks |-> <<>>, sum_events |-> FALSE,
     calculate_uncertainty |-> FALSE, result |-> Raised("none")]

----------------------------------------------------------------------------
(* Histogram binning *)

\* the expression of the histogrammed observable, and its range (min, max)
histrange == <<50, 52>>

\* np.linspace(histrange[0], histrange[1], num=nbins + 1)
bin_boundaries ==
    [k \in 1..(NBins + 1) |->
        XAdd(FromInt(histrange[1]), Frac((k - 1) * (histrange[2] - histrange[1]), NBins))]

n_bins_total == NBins + 2

\* np.searchsorted(boundaries, x) (side="left"): the number of boundaries
\* below x; a NaN sorts after every boundary
searchsorted(boundaries, x) ==
    IF IsNaN(x) THEN Len(boundaries)
    ELSE Cardinality({k \in 1..Len(boundaries) : XLess(boundaries[k], x)})

----------------------------------------------------------------------------
(* Running totals *)

ZeroVector(n) == [b \in 1..n |-> Zero]

VecAdd(u, v) == [b \in 1..Len(u) |-> XAdd(u[b], v[b])]

\* np.sum(weights, axis=0) of a sequence of B-vectors
RECURSIVE VecSum(_, _)
VecSum(ws, n_benchmarks) ==
    IF Len(ws) = 0 THEN ZeroVector(n_benchmarks)
    ELSE VecAdd(ws[1], VecSum(Tail(ws), n_benchmarks))

Squares(ws) == [n \in 1..Len(ws) |-> [b \in 1..Len(ws[n]) |-> XMul(ws[n][b], ws[n][b])]]

WeightsOf(events) == [n \in 1..Len(events) |-> events[n].w]

n_benchmarks == Len(morphing.theta_matrix)

n_parameters == Len(morphing.dtheta_matrix)

\* self.morpher = None
NoMorpher == [components_set |-> FALSE, basis_set |-> FALSE, none |-> TRUE]

\* no Observable is being constructed
NoObservable ==
    [pc |-> "none", args |-> <<>>, fields |-> <<>>, evaluations |-> 0, invocations |-> 0,
     raised |-> "none"]

\* no request has returned yet
NoPrevious == [op |-> "none", args |-> <<>>, result |-> Raised("none")]

\* variant: the morphing setup is accepted when only the matrix is there
FisherInformation__init__matrix_only(settings_) ==
    IF settings_.morphing_matrix
    THEN Returned([components_set |-> settings_.morphing_components,
                   basis_set |-> TRUE, none |-> FALSE])
    ELSE Raised("RuntimeError")

\* FisherInformation.__init__: the morpher built from the loaded settings
FisherInformation__init__(settings_) ==
    IF settings_.morphing_matrix /\ settings_.morphing_components
    THEN Returned([components_set |-> TRUE, basis_set |-> TRUE, none |-> FALSE])
    ELSE Raised("RuntimeError")

\* arguments of calculate_fisher_information_full_detector and what the call
\* has done so far: whether the event loader was asked for batches and
\* whether the estimator was loaded from model_file
NoFullDetector ==
    [mode |-> "information", uncertainty |-> "ensemble", model_is_ensemble |-> FALSE,
     include_xsec_info |-> TRUE, loader_called |-> FALSE, model_loaded |-> FALSE]

\* np.linspace(range[0], range[1], num=nbins + 1)
linspace(range, nbins) ==
    [k \in 1..(nbins + 1) |->
        XAdd(FromInt(range[1]), Frac((k - 1) * (range[2] - range[1]), nbins))]

\* ranges of the two histogrammed observables of the 2D request: the second
\* range ends below the largest value of "a"
histrange1 == <<50, 52>>

histrange2 == <<48, 50>>

\* the second observable of the 2D request is "a" as well
observable2 == Expr("var", "a", Zero)

\* calculate_fisher_information_hist2d, before the loop over batches
\* (lines 770-777): both totals are computed from nbins1
Hist2dLocals(nbins1, nbins2) ==
    [nbins1 |-> nbins1, nbins2 |-> nbins2,
     n_bins1_total   |-> nbins1 + 2,
     bin1_boundaries |-> linspace(histrange1, nbins1),
     n_bins2_total   |-> nbins1 + 2,
     bin2_boundaries |-> linspace(histrange2, nbins2),
     weights_benchmarks |->
         [i \in 1..(nbins1 + 2) |-> [j \in 1..(nbins1 + 2) |-> ZeroVector(n_benchmarks)]]]

NoHist2d ==
    [nbins1 |-> 0, nbins2 |-> 0, n_bins1_total |-> 0, bin1_boundaries |-> <<>>,
     n_bins2_total |-> 0, bin2_boundaries |-> <<>>, weights_benchmarks |-> <<>>]

\* the accumulators as they are created before the batch loop
InitialAcc ==
    [xsecs_none                   |-> TRUE,       \* xsecs_benchmarks is None
     xsecs_benchmarks             |-> <<>>,
     xsecs_uncertainty_benchmarks |-> <<>>,       \* summed squares (the root is taken at the end)
     fisher_info                  |-> ZeroMatrix(n_parameters),
     weights_benchmarks_bins      |-> [i \in 1..n_bins_total |-> ZeroVector(n_benchmarks)],
     fisher_info_full_bins        |-> [i \in 1..n_bins_total |-> ZeroMatrix(n_parameters)],
     \* locals of calculate_fisher_information_hist1d
     dynamic_binning              |-> FALSE,
     n_bins_total                 |-> n_bins_total,
     bin_boundaries               |-> bin_boundaries,
     weights_benchmarks           |-> [i \in 1..n_bins_total |-> ZeroVector(n_benchmarks)],
     weights_squared_benchmarks   |-> [i \in 1..n_bins_total |-> ZeroVector(n_benchmarks)],
     \* history of calculate_fisher_information_full_detector
     full_detector                |-> NoFullDetector,
     \* locals of calculate_fisher_information_hist2d
     hist2d                       |-> NoHist2d]

\* madminer_event_loader: the next batch of the file, of at most len events
NextBatchOf(file, position_, len) ==
    SubSeq(file, position_ + 1,
           IF position_ + len < Len(file) THEN position_ + len ELSE Len(file))

----------------------------------------------------------------------------
(* Requests to the engine *)

\* calculate_fisher_information_full_truth from call to return, the loader
\* yielding the whole file as one batch (its default batch size)
calculate_fisher_information_full_truth(file) ==
    LET kept == CutsAndEfficiencies(file, cuts, efficiency_functions)
        this == _calculate_fisher_information(morphing, WeightsOf(kept.value), luminosity,
                                              TRUE, TRUE)
    IN  IF Len(file) = 0 THEN Returned(ZeroMatrix(n_parameters))
        ELSE IF kept.status # "ok" THEN Raised(kept.status)
        ELSE IF this.status # "ok" THEN Raised(this.status)
        ELSE Returned(MatAdd(ZeroMatrix(n_parameters), this.value))

\* FisherInformation(filename, include_nuisance_parameters)
Construct ==
    /\ pc = "unconstructed"
    /\ LET r == FisherInformation__init__(settings)
       IN  IF r.status = "ok"
           THEN /\ morpher' = r.value
                /\ pc' = IF settings.include_nuisance_parameters
                         THEN "idle_nuisance" ELSE "idle"
                /\ result' = result
           ELSE /\ morpher' = NoMorpher
                /\ pc' = "construction_failed"
                /\ result' = r
    /\ UNCHANGED <<settings, previous, reader, morphing, event_file, luminosity, cuts,
                   efficiency_functions, observable, op, position, batch_in, weights, call, acc>>
    /\ UNCHANGED la_vars

\* _calculate_fisher_information called on the weights of the whole file
DirectCall(sum_events, calculate_uncertainty) ==
    /\ pc = "idle"
    /\ op' = "tensor"
    /\ call' = Call(WeightsOf(event_file), sum_events, calculate_uncertainty,
                    _calculate_fisher_information(morphing, WeightsOf(event_file), luminosity,
                                                  sum_events, calculate_uncertainty))
    /\ result' = call'.result
    /\ pc' = IF call'.result.status = "ok" THEN "done" ELSE "error"
    /\ UNCHANGED <<settings, morpher, previous, observable, reader>>
    /\ UNCHANGED <<morphing, event_file, luminosity, cuts, efficiency_functions,
                   position, batch_in, weights, acc>>
    /\ UNCHANGED la_vars

\* _calculate_fisher_information called with include_nuisance_parameters=True
\* on the weights of the whole file, nuisance benchmarks included
DirectNuisanceCall(sum_events, calculate_uncertainty) ==
    /\ pc = "idle_nuisance"
    /\ op' = "tensor_nuisance"
    /\ call' = Call(WeightsOf(event_file), sum_events, calculate_uncertainty,
                    _calculate_fisher_information_nuisance(morphing, WeightsOf(event_file),
                                                           luminosity, sum_events,
                                                           calculate_uncertainty))
    /\ result' = call'.result
    /\ pc' = IF call'.result.status = "ok" THEN "done" ELSE "error"
    /\ UNCHANGED <<settings, morpher, previous, observable, reader>>
    /\ UNCHANGED <<morphing, event_file, luminosity, cuts, efficiency_functions,
                   position, batch_in, weights, acc>>
    /\ UNCHANGED la_vars

ModeValues == {"score", "information"}

\* the values of uncertainty that the ensemble estimator knows
UncertaintyValues == {"ensemble", "expectation", "sum"}

\* EnsembleForge / MLForge .calculate_fisher_information on the batches of the
\* file.  The estimators are not part of this file: the ensemble rejects an
\* uncertainty it does not know, the single estimator takes no such
\* argument; the value of the estimate plays no part here.
estimator_calculate_fisher_information(model_is_ensemble, mode, uncertainty) ==
    IF model_is_ensemble /\ uncertainty \notin UncertaintyValues
    THEN Raised("ValueError")
    ELSE Returned("fisher_info_kin")

\* calculate_fisher_information_full_detector with unweighted_x_sample_file
\* = None and test_split = None, from the check of mode to the return: the
\* total cross section (no cuts), the rate information, the estimator, the
\* batch loop
full_detector(mode, uncertainty, model_is_ensemble, include_xsec_info) ==
    LET args == [mode |-> mode, uncertainty |-> uncertainty,
                 model_is_ensemble |-> model_is_ensemble,
                 include_xsec_info |-> include_xsec_info,
                 loader_called |-> FALSE, model_loaded |-> FALSE]
        xsecs_benchmarks == VecSum(WeightsOf(event_file), n_benchmarks)
        rate == _calculate_fisher_information(morphing, <<xsecs_benchmarks>>, luminosity,
                                              TRUE, TRUE)
        this_fisher_info ==
            estimator_calculate_fisher_information(model_is_ensemble, mode, uncertainty)
    IN  IF mode \notin ModeValues
        THEN [trace |-> args, call |-> NoCall, result |-> Raised("ValueError")]
        ELSE IF Len(event_file) = 0
        THEN [trace |-> [args EXCEPT !.loader_called = TRUE], call |-> NoCall,
              result |-> Raised("AssertionError")]
        ELSE IF include_xsec_info /\ rate.status # "ok"
        THEN [trace |-> [args EXCEPT !.loader_called = TRUE],
              call |-> Call(<<xsecs_benchmarks>>, TRUE, TRUE, rate),
              result |-> Raised(rate.status)]
        ELSE [trace |-> [args EXCEPT !.loader_called = TRUE, !.model_loaded = TRUE],
              call |-> IF include_xsec_info
                       THEN Call(<<xsecs_benchmarks>>, TRUE, TRUE, rate) ELSE NoCall,
              result |-> this_fisher_info]

\* arguments of a request: one known and one unknown value of each
RequestedModes == {"information", "unknown"}

RequestedUncertainties == {"ensemble", "unknown"}

FullDetector(mode, uncertainty, model_is_ensemble, include_xsec_info) ==
    /\ pc = "idle"
    /\ op' = "full_detector"
    /\ LET r == full_detector(mode, uncertainty, model_is_ensemble, include_xsec_info)
       IN  /\ acc' = [InitialAcc EXCEPT !.full_detector = r.trace]
           /\ call' = r.call
           /\ result' = r.result
           /\ pc' = IF r.result.status = "ok" THEN "done" ELSE "error"
    /\ UNCHANGED <<settings, morpher, previous, observable, reader>>
    /\ UNCHANGED <<morphing, event_file, luminosity, cuts, efficiency_functions,
                   position, batch_in, weights>>
    /\ UNCHANGED la_vars

\* a streaming request starts: the accumulators are created
\* (calculate_fisher_information_hist1d: with histrange given, manual binning)
StartRequest(o) ==
    /\ pc = "idle"
    /\ op' = o
    /\ pc' = "streaming"
    /\ acc' = InitialAcc
    /\ UNCHANGED <<settings, morpher, previous, observable, reader>>
    /\ UNCHANGED <<morphing, event_file, luminosity, cuts, efficiency_functions,
                   position, batch_in, weights, call, result>>
    /\ UNCHANGED la_vars

\* the request ends with an exception
Fail(e) ==
    /\ pc' = "error"
    /\ result' = Raised(e)

Continue ==
    /\ pc' = "streaming"
    /\ result' = result

\* default of the argument n_events_dynamic_binning: the size of the pilot batch
n_events_dynamic_binning == 100000

\* nbins - 1 interior boundaries remain of the nbins + 1 quantiles
NonDecreasing(s) == \A k \in 1..(Len(s) - 1) : ~XLess(s[k + 1], s[k])

\* weighted_quantile(histo_observables_pilot, quantile_values, weight_theta_pilot):
\* np.interp of the nbins + 1 quantiles into the sorted values; an empty
\* sample is rejected by np.interp.  The set of possible results.
weighted_quantile(values) ==
    IF Len(values) = 0 THEN {Raised("ValueError")}
    ELSE {Returned(q) : q \in {s \in [1..(NBins + 1) -> Range(values)] : NonDecreasing(s)}}

\* the totals of a request whose histrange is None, before the pilot batch
DynamicAcc == [InitialAcc EXCEPT !.dynamic_binning = TRUE]

\* calculate_fisher_information_hist1d with histrange = None: the boundaries
\* are the inner quantiles of the observable in the pilot batch
StartHist1dDynamic ==
    /\ pc = "idle"
    /\ op' = "hist1d"
    /\ LET x_pilot == NextBatchOf(event_file, 0, n_events_dynamic_binning)
           kept == CutsAndEfficiencies(x_pilot, cuts, efficiency_functions)
           histo_observables_pilot ==
               [n \in 1..Len(kept.value) |-> _eval_observable(kept.value[n].obs, observable)]
       IN  IF Len(event_file) = 0 THEN Fail("StopIteration") /\ acc' = DynamicAcc
           ELSE IF kept.status # "ok" THEN Fail(kept.status) /\ acc' = DynamicAcc
           ELSE IF FirstError(histo_observables_pilot) # "ok"
                THEN Fail(FirstError(histo_observables_pilot)) /\ acc' = DynamicAcc
           ELSE \E q \in weighted_quantile([n \in 1..Len(kept.value) |->
                                                histo_observables_pilot[n].value]) :
                   IF q.status # "ok" THEN Fail(q.status) /\ acc' = DynamicAcc
                   ELSE /\ pc' = "streaming"
                        /\ result' = result
                        /\ acc' = [InitialAcc EXCEPT
                              !.dynamic_binning = TRUE,
                              !.n_bins_total = NBins,
                              !.bin_boundaries = SubSeq(q.value, 2, NBins),
                              !.weights_benchmarks = [i \in 1..NBins |-> ZeroVector(n_benchmarks)],
                              !.weights_squared_benchmarks =
                                  [i \in 1..NBins |-> ZeroVector(n_benchmarks)]]
    /\ UNCHANGED <<settings, morpher, previous, observable, reader>>
    /\ UNCHANGED <<morphing, event_file, luminosity, cuts, efficiency_functions,
                   position, batch_in, weights, call>>
    /\ UNCHANGED la_vars

\* the events of a batch that fall into bin i (0-based), as a mask
InBin(bins, i) == [n \in 1..Len(bins) |-> bins[n] = i]

\* variant: the squared sums are accumulated only for the first bin
Hist1dBatch_squares_of_first_bin(kept) ==
    LET histo_observables == [n \in 1..Len(kept) |-> _eval_observable(kept[n].obs, observable)]
        bins == [n \in 1..Len(kept) |->
                    searchsorted(acc.bin_boundaries, histo_observables[n].value)]
    IN  /\ call' = call
        /\ IF FirstError(histo_observables) # "ok"
           THEN Fail(FirstError(histo_observables)) /\ acc' = acc
           ELSE IF \E n \in 1..Len(bins) : ~(0 <= bins[n] /\ bins[n] < acc.n_bins_total)
                THEN Fail("AssertionError") /\ acc' = acc
           ELSE /\ Continue
                /\ acc' = [acc EXCEPT
                      !.weights_benchmarks = [i \in 1..acc.n_bins_total |->
                          IF Len(Select(kept, InBin(bins, i - 1))) > 0
                          THEN VecAdd(@[i], VecSum(WeightsOf(Select(kept, InBin(bins, i - 1))),
                                                   n_benchmarks))
                          ELSE @[i]],
                      !.weights_squared_benchmarks = [i \in 1..acc.n_bins_total |->
                          IF Len(Select(kept, InBin(bins, i - 1))) > 0 /\ i = 1
                          THEN VecAdd(@[i],
                                      VecSum(Squares(WeightsOf(Select(kept, InBin(bins, i - 1)))),
                                             n_benchmarks))
                          ELSE @[i]]]

\* body of the batch loop of calculate_fisher_information_hist1d
Hist1dBatch(kept) ==
    LET histo_observables == [n \in 1..Len(kept) |-> _eval_observable(kept[n].obs, observable)]
        bins == [n \in 1..Len(kept) |->
                    searchsorted(acc.bin_boundaries, histo_observables[n].value)]
    IN  /\ call' = call
        /\ IF FirstError(histo_observables) # "ok"
           THEN Fail(FirstError(histo_observables)) /\ acc' = acc
           ELSE IF \E n \in 1..Len(bins) : ~(0 <= bins[n] /\ bins[n] < acc.n_bins_total)
                THEN Fail("AssertionError") /\ acc' = acc
           ELSE /\ Continue
                /\ acc' = [acc EXCEPT
                      !.weights_benchmarks = [i \in 1..acc.n_bins_total |->
                          IF Len(Select(kept, InBin(bins, i - 1))) > 0
                          THEN VecAdd(@[i], VecSum(WeightsOf(Select(kept, InBin(bins, i - 1))),
                                                   n_benchmarks))
                          ELSE @[i]],
                      !.weights_squared_benchmarks = [i \in 1..acc.n_bins_total |->
                          IF Len(Select(kept, InBin(bins, i - 1))) > 0
                          THEN VecAdd(@[i],
                                      VecSum(Squares(WeightsOf(Select(kept, InBin(bins, i - 1)))),
                                             n_benchmarks))
                          ELSE @[i]]]

\* calculate_fisher_information_hist2d is called
StartHist2d(nbins1, nbins2) ==
    /\ pc = "idle"
    /\ op' = "hist2d"
    /\ pc' = "streaming"
    /\ acc' = [InitialAcc EXCEPT !.hist2d = Hist2dLocals(nbins1, nbins2)]
    /\ UNCHANGED <<settings, morpher, previous, observable, reader>>
    /\ UNCHANGED <<morphing, event_file, luminosity, cuts, efficiency_functions,
                   position, batch_in, weights, call, result>>
    /\ UNCHANGED la_vars

\* body of the batch loop of calculate_fisher_information_hist2d: both
\* asserts check bins1
Hist2dBatch(kept) ==
    LET h == acc.hist2d
        histo1_observables == [n \in 1..Len(kept) |-> _eval_observable(kept[n].obs, observable)]
        histo2_observables == [n \in 1..Len(kept) |-> _eval_observable(kept[n].obs, observable2)]
        bins1 == [n \in 1..Len(kept) |->
                     searchsorted(h.bin1_boundaries, histo1_observables[n].value)]
        bins2 == [n \in 1..Len(kept) |->
                     searchsorted(h.bin2_boundaries, histo2_observables[n].value)]
        InBoth(i, j) == [n \in 1..Len(kept) |-> bins1[n] = i /\ bins2[n] = j]
    IN  /\ call' = call
        /\ IF FirstError(histo1_observables) # "ok"
           THEN Fail(FirstError(histo1_observables)) /\ acc' = acc
           ELSE IF FirstError(histo2_observables) # "ok"
           THEN Fail(FirstError(histo2_observables)) /\ acc' = acc
           ELSE IF \E n \in 1..Len(bins1) : ~(0 <= bins1[n] /\ bins1[n] < h.n_bins1_total)
                THEN Fail("AssertionError") /\ acc' = acc
           ELSE /\ Continue
                /\ acc' = [acc EXCEPT
                      !.hist2d.weights_benchmarks =
                          [i \in 1..h.n_bins1_total |-> [j \in 1..h.n_bins2_total |->
                              IF Len(Select(kept, InBoth(i - 1, j - 1))) > 0
                              THEN VecAdd(@[i][j],
                                          VecSum(WeightsOf(Select(kept, InBoth(i - 1, j - 1))),
                                                 n_benchmarks))
                              ELSE @[i][j]]]]

\* weights_benchmarks.reshape(-1, n_benchmarks): the rows of the grid in a row
RECURSIVE Flatten(_)
Flatten(grid) == IF Len(grid) = 0 THEN <<>> ELSE grid[1] \o Flatten(Tail(grid))

\* calculate_fisher_information_hist2d after the loop: sum_events=True
Hist2dFinish ==
    LET weights_benchmarks == Flatten(acc.hist2d.weights_benchmarks)
        r == _calculate_fisher_information(morphing, weights_benchmarks, luminosity,
                                           TRUE, FALSE)
    IN  /\ call' = Call(weights_benchmarks, TRUE, FALSE, r)
        /\ IF r.status # "ok" THEN Fail(r.status)
           ELSE pc' = "done" /\ result' = r

\* calculate_fisher_information_hist1d after the loop: the per-bin sums are
\* passed on with sum_events=True, calculate_uncertainty=True
Hist1dFinish ==
    LET r == _calculate_fisher_information(morphing, acc.weights_benchmarks, luminosity,
                                           TRUE, TRUE)
    IN  /\ call' = Call(acc.weights_benchmarks, TRUE, TRUE, r)
        /\ IF r.status # "ok" THEN Fail(r.status)
           ELSE pc' = "done" /\ result' = r

\* variant: every batch overwrites the totals (= instead of +=)
XsecBatch_overwrite(kept) ==
    /\ acc' = [acc EXCEPT
                 !.xsecs_none = FALSE,
                 !.xsecs_benchmarks = VecSum(WeightsOf(kept), n_benchmarks),
                 !.xsecs_uncertainty_benchmarks = VecSum(Squares(WeightsOf(kept)), n_benchmarks)]
    /\ call' = call
    /\ Continue

\* body of the batch loop of _calculate_xsec
XsecBatch(kept) ==
    /\ acc' = [acc EXCEPT
                 !.xsecs_none = FALSE,
                 !.xsecs_benchmarks =
                     IF acc.xsecs_none THEN VecSum(WeightsOf(kept), n_benchmarks)
                     ELSE VecAdd(@, VecSum(WeightsOf(kept), n_benchmarks)),
                 !.xsecs_uncertainty_benchmarks =
                     IF acc.xsecs_none THEN VecSum(Squares(WeightsOf(kept)), n_benchmarks)
                     ELSE VecAdd(@, VecSum(Squares(WeightsOf(kept)), n_benchmarks))]
    /\ call' = call
    /\ Continue

\* body of the batch loop of calculate_fisher_information_full_truth
FullTruthBatch(kept) ==
    LET r == _calculate_fisher_information(morphing, WeightsOf(kept), luminosity, TRUE, TRUE)
    IN  /\ call' = Call(WeightsOf(kept), TRUE, TRUE, r)
        /\ IF r.status # "ok"
           THEN Fail(r.status) /\ acc' = acc
           ELSE Continue /\ acc' = [acc EXCEPT !.fisher_info = MatAdd(@, r.value)]

\* body of the batch loop of histogram_of_fisher_information
HistogramOfInformationBatch(kept) ==
    LET r == _calculate_fisher_information(morphing, WeightsOf(kept), luminosity, FALSE, FALSE)
        histo_observables == [n \in 1..Len(kept) |-> _eval_observable(kept[n].obs, observable)]
        bins == [n \in 1..Len(kept) |-> searchsorted(bin_boundaries, histo_observables[n].value)]
    IN  /\ call' = Call(WeightsOf(kept), FALSE, FALSE, r)
        /\ IF r.status # "ok" THEN Fail(r.status) /\ acc' = acc
           ELSE IF FirstError(histo_observables) # "ok"
                THEN Fail(FirstError(histo_observables)) /\ acc' = acc
           ELSE IF \E n \in 1..Len(bins) : ~(0 <= bins[n] /\ bins[n] < n_bins_total)
                THEN Fail("AssertionError") /\ acc' = acc
           ELSE /\ Continue
                /\ acc' = [acc EXCEPT
                      !.weights_benchmarks_bins = [i \in 1..n_bins_total |->
                          IF Len(Select(kept, InBin(bins, i - 1))) > 0
                          THEN VecAdd(@[i], VecSum(WeightsOf(Select(kept, InBin(bins, i - 1))),
                                                   n_benchmarks))
                          ELSE @[i]],
                      !.fisher_info_full_bins = [i \in 1..n_bins_total |->
                          IF Len(Select(kept, InBin(bins, i - 1))) > 0
                          THEN MatAdd(@[i], MatSum(Select(r.value, InBin(bins, i - 1)),
                                                   n_parameters))
                          ELSE @[i]]]

\* one iteration of the batch loop: the loader yields a batch, the cuts and
\* efficiencies are applied, and the request accumulates
NextBatch ==
    /\ pc = "streaming"
    /\ position < Len(event_file)
    /\ \E len \in 1..BatchSize : batch_in' = NextBatchOf(event_file, position, len)
    /\ position' = position + Len(batch_in')
    /\ LET kept == CutsAndEfficiencies(batch_in', cuts, efficiency_functions)
       IN  IF kept.status # "ok"
           THEN /\ Fail(kept.status)
                /\ UNCHANGED <<weights, call, acc>>
           ELSE /\ weights' = WeightsOf(kept.value)
                /\ CASE op \in {"xsec", "rate"} -> XsecBatch(kept.value)
                     [] op = "hist1d" -> Hist1dBatch(kept.value)
                     [] op = "hist2d" -> Hist2dBatch(kept.value)
                     [] op = "full_truth" -> FullTruthBatch(kept.value)
                     [] op = "histogram_of_information" -> HistogramOfInformationBatch(kept.value)
    /\ UNCHANGED <<settings, morpher, previous, observable, reader>>
    /\ UNCHANGED <<morphing, event_file, luminosity, cuts, efficiency_functions, op>>
    /\ UNCHANGED la_vars

\* variant: the rate-only information of every bin is computed from the
\* weights summed over all bins
HistogramOfInformationFinish_total ==
    LET total == VecSum(acc.weights_benchmarks_bins, n_benchmarks)
        r == _calculate_fisher_information(morphing, [i \in 1..n_bins_total |-> total],
                                           luminosity, FALSE, FALSE)
    IN  /\ call' = Call(acc.weights_benchmarks_bins, FALSE, FALSE, r)
        /\ IF r.status # "ok" THEN Fail(r.status)
           ELSE /\ pc' = "done"
                /\ result' = Returned([bin_boundaries        |-> bin_boundaries,
                                       sigma_bins            |-> <<>>,
                                       fisher_info_rate_bins |-> r.value,
                                       fisher_info_full_bins |-> acc.fisher_info_full_bins])

\* what histogram_of_fisher_information computes after the loop
HistogramOfInformationFinish ==
    LET sigma_bins == [i \in 1..n_bins_total |->
                          Dot(morphing.theta_matrix, acc.weights_benchmarks_bins[i])]
        r == _calculate_fisher_information(morphing, acc.weights_benchmarks_bins, luminosity,
                                           FALSE, FALSE)
    IN  /\ call' = Call(acc.weights_benchmarks_bins, FALSE, FALSE, r)
        /\ IF r.status # "ok" THEN Fail(r.status)
           ELSE /\ pc' = "done"
                /\ result' = Returned([bin_boundaries        |-> bin_boundaries,
                                       sigma_bins            |-> sigma_bins,
                                       fisher_info_rate_bins |-> r.value,
                                       fisher_info_full_bins |-> acc.fisher_info_full_bins])

\* calculate_fisher_information_rate after _calculate_xsec has returned: the
\* benchmark cross sections are reshaped to one row and passed on with
\* sum_events=True, calculate_uncertainty=True
RateFinish ==
    IF acc.xsecs_none THEN Fail("AssertionError") /\ call' = call
    ELSE LET r == _calculate_fisher_information(morphing, <<acc.xsecs_benchmarks>>, luminosity,
                                                TRUE, TRUE)
         IN  /\ call' = Call(<<acc.xsecs_benchmarks>>, TRUE, TRUE, r)
             /\ IF r.status # "ok" THEN Fail(r.status)
                ELSE pc' = "done" /\ result' = r

\* the loader is exhausted: the request returns
Finish ==
    /\ pc = "streaming"
    /\ position = Len(event_file)
    /\ CASE op = "xsec" ->
              /\ call' = call
              /\ IF acc.xsecs_none THEN Fail("AssertionError")
                 ELSE pc' = "done" /\ result' = Returned(acc.xsecs_benchmarks)
         [] op = "rate" -> RateFinish
         [] op = "hist1d" -> Hist1dFinish
         [] op = "hist2d" -> Hist2dFinish
         [] op = "full_truth" ->
              /\ call' = call
              /\ pc' = "done"
              /\ result' = Returned(acc.fisher_info)
         [] op = "histogram_of_information" -> HistogramOfInformationFinish
    /\ UNCHANGED <<settings, morpher, previous, observable, reader>>
    /\ UNCHANGED <<morphing, event_file, luminosity, cuts, efficiency_functions,
                   op, position, batch_in, weights, acc>>
    /\ UNCHANGED la_vars

----------------------------------------------------------------------------
(* Inputs of the engine *)

\* Reweighter outputs (theta_matrix, dtheta_matrix) for the requested theta.
\* LinearMorphing: one parameter, two benchmarks, theta at the first benchmark.
LinearMorphing ==
    [theta_matrix  |-> <<FromInt(1), FromInt(0)>>,
     dtheta_matrix |-> << <<FromInt(-1), FromInt(1)>> >>]

\* two parameters, two benchmarks
TwoParameterMorphing ==
    [theta_matrix  |-> <<FromInt(2), FromInt(1)>>,
     dtheta_matrix |-> << <<FromInt(-1), FromInt(1)>>, <<FromInt(0), FromInt(1)>> >>]

MorphingSetups == {LinearMorphing, TwoParameterMorphing}

\* values of the observable "a" in the event file
ObsValues == {FromInt(50), FromInt(51)}

\* the value of "a" in the files used without cuts
PlainObsValues == {FromInt(51)}

\* benchmark weight vectors: negative and non-finite weights included
WeightValues ==
    {<<FromInt(2), FromInt(-1)>>, <<FromInt(-1), FromInt(2)>>,
     <<FromInt(-1), PosInf>>, <<PosInf, FromInt(2)>>}

\* benchmark weight vectors of the files used with cuts and efficiencies
PlainWeightValues == {<<FromInt(1), FromInt(2)>>, <<FromInt(2), FromInt(1)>>}

LuminosityValues == {FromInt(0), FromInt(2)}

Events(O, W) == {[obs |-> <<a>>, w |-> w] : a \in O, w \in W}

\* event files of at most MaxEvents events
EventFiles(O, W) == SeqsUpTo(Events(O, W), MaxEvents)

\* the observable "a" itself
ObservableA == Expr("var", "a", Zero)

CutGt50 == Expr("gt", "a", FromInt(50))

CutLt51 == Expr("lt", "a", FromInt(51))

EffHalf == Expr("const", "", Frac(1, 2))

EffVarA == Expr("var", "a", Zero)

CutLists == {<<>>, <<CutGt50>>, <<CutGt50, CutLt51>>}

EfficiencyLists == {<<>>, <<EffHalf>>, <<EffHalf, EffVarA>>}

\* the linear-algebra caller at rest
LinAlgUnused ==
    /\ la_pc = "unused"
    /\ la_call = "none"
    /\ fisher_information = <<>>
    /\ remaining_components = <<>>
    /\ la_result = Raised("none")

\* settings with a morphing setup
CompleteSettings(include_nuisance_parameters) ==
    [morphing_matrix |-> TRUE, morphing_components |-> TRUE,
     include_nuisance_parameters |-> include_nuisance_parameters]

\* the engine at rest
EngineUnused ==
    /\ morphing = LinearMorphing
    /\ event_file = <<>>
    /\ luminosity = Zero
    /\ cuts = <<>>
    /\ efficiency_functions = <<>>
    /\ observable = ObservableA
    /\ settings = CompleteSettings(FALSE)
    /\ morpher = NoMorpher
    /\ previous = NoPrevious
    /\ pc = "unused"
    /\ op = "none"
    /\ position = 0
    /\ batch_in = <<>>
    /\ weights = <<>>
    /\ call = NoCall
    /\ acc = InitialAcc
    /\ result = Raised("none")

\* weight vectors with a nuisance benchmark: its ratio to the sampling
\* benchmark is 1, 0 or -1
NuisanceWeightValues ==
    {<<FromInt(2), FromInt(-1), FromInt(2)>>, <<FromInt(2), FromInt(-1), FromInt(0)>>,
     <<FromInt(2), FromInt(-1), FromInt(-2)>>}

InitNuisanceInputs ==
    /\ morphing \in MorphingSetups
    /\ event_file \in EventFiles(PlainObsValues, NuisanceWeightValues) \ {<<>>}
    /\ luminosity = FromInt(2)
    /\ cuts = <<>>
    /\ efficiency_functions = <<>>
    /\ observable = ObservableA

\* any morphing setup, any weights, no cuts
InitTensorInputs ==
    /\ morphing \in MorphingSetups
    /\ event_file \in EventFiles(PlainObsValues, WeightValues)
    /\ luminosity \in LuminosityValues
    /\ cuts = <<>>
    /\ efficiency_functions = <<>>
    /\ observable = ObservableA

\* any cuts and efficiencies, plain weights, one morphing setup
InitCutInputs ==
    /\ morphing = TwoParameterMorphing
    /\ event_file \in EventFiles(ObsValues, PlainWeightValues)
    /\ luminosity = FromInt(1)
    /\ cuts \in CutLists
    /\ efficiency_functions \in EfficiencyLists
    /\ observable = ObservableA

\* expressions with a name that is no observable: an unknown one, a builtin
CutUnknown == Expr("gt", "b", FromInt(50))

CutBool == Expr("call", "bool", FromInt(1))

EffUnknown == Expr("var", "b", Zero)

EffBool == Expr("call", "bool", FromInt(1))

ObservableUnknown == Expr("var", "b", Zero)

ObservableBool == Expr("call", "bool", FromInt(51))

\* an observation vector of the declared length and one that is too long
NameEvents ==
    {[obs |-> <<FromInt(51)>>, w |-> <<FromInt(1), FromInt(2)>>],
     [obs |-> <<FromInt(51), FromInt(51)>>, w |-> <<FromInt(1), FromInt(2)>>]}

\* expressions with foreign names, observation vectors of the wrong length
InitNameInputs ==
    /\ morphing = TwoParameterMorphing
    /\ event_file \in SeqsUpTo(NameEvents, MaxEvents)
    /\ luminosity = FromInt(1)
    /\ cuts \in {<<>>, <<CutUnknown>>, <<CutBool>>}
    /\ efficiency_functions \in {<<>>, <<EffUnknown>>, <<EffBool>>}
    /\ observable \in {ObservableA, ObservableUnknown, ObservableBool}

\* before the constructor has run
EngineUnconstructed ==
    /\ morpher = NoMorpher
    /\ previous = NoPrevious
    /\ reader = NoObservable
    /\ pc = "unconstructed"
    /\ op = "none"
    /\ position = 0
    /\ batch_in = <<>>
    /\ weights = <<>>
    /\ call = NoCall
    /\ acc = InitialAcc
    /\ result = Raised("none")

\* files without a complete morphing setup
InitIncompleteSettings ==
    /\ settings \in {st \in [morphing_matrix : BOOLEAN, morphing_components : BOOLEAN,
                              include_nuisance_parameters : BOOLEAN] :
                         ~(st.morphing_matrix /\ st.morphing_components)}
    /\ morphing = LinearMorphing
    /\ event_file \in EventFiles(PlainObsValues, PlainWeightValues)
    /\ luminosity = FromInt(1)
    /\ cuts = <<>>
    /\ efficiency_functions = <<>>
    /\ observable = ObservableA

InitEngine ==
    /\ \/ (InitTensorInputs \/ InitCutInputs) /\ settings = CompleteSettings(FALSE)
       \/ InitNuisanceInputs /\ settings = CompleteSettings(TRUE)
       \/ InitIncompleteSettings
    /\ EngineUnconstructed
    /\ LinAlgUnused

Requests == {"xsec", "rate", "full_truth", "hist1d", "histogram_of_information"}

NextEngine ==
    \/ Construct
    \/ \E sum_events \in BOOLEAN, calculate_uncertainty \in BOOLEAN :
          DirectCall(sum_events, calculate_uncertainty)
    \/ \E sum_events \in BOOLEAN, calculate_uncertainty \in BOOLEAN :
          DirectNuisanceCall(sum_events, calculate_uncertainty)
    \/ \E mode \in RequestedModes, uncertainty \in RequestedUncertainties,
          model_is_ensemble \in BOOLEAN, include_xsec_info \in BOOLEAN :
          FullDetector(mode, uncertainty, model_is_ensemble, include_xsec_info)
    \/ \E o \in Requests : StartRequest(o)
    \/ StartHist1dDynamic
    \/ NextBatch
    \/ Finish

SpecEngine == InitEngine /\ [][NextEngine]_vars

\* extract_raw_data(theta=None): the whole file as one batch
ExtractRawData ==
    /\ pc = "idle"
    /\ op' = "extract_raw_data"
    /\ IF Len(event_file) = 0
       THEN Fail("StopIteration")
       ELSE /\ pc' = "done"
            /\ result' = Returned([x |-> [n \in 1..Len(event_file) |-> event_file[n].obs],
                                   weights |-> WeightsOf(event_file)])
    /\ UNCHANGED <<settings, morpher, previous, observable, reader>>
    /\ UNCHANGED <<morphing, event_file, luminosity, cuts, efficiency_functions,
                   position, batch_in, weights, call, acc>>
    /\ UNCHANGED la_vars

\* the arguments that tell two requests of the same kind apart
RequestArgs == <<acc.dynamic_binning, acc.hist2d.nbins1, acc.hist2d.nbins2>>

\* variant: the loader of the request that returned is used again
Return_keeps_loader ==
    /\ pc \in {"done", "error"}
    /\ pc' = "idle"
    /\ op' = "none"
    /\ previous' = IF previous.op = "none"
                   THEN [op |-> op, args |-> RequestArgs, result |-> result]
                   ELSE previous
    /\ position' = position
    /\ batch_in' = <<>>
    /\ weights' = <<>>
    /\ call' = NoCall
    /\ acc' = InitialAcc
    /\ result' = Raised("none")
    /\ UNCHANGED <<settings, morpher, morphing, event_file, luminosity, cuts,
                   efficiency_functions, observable, reader>>
    /\ UNCHANGED la_vars

\* the request has returned or raised: its locals (loader, totals) are gone,
\* the caller keeps the outcome and the engine is ready for the next request
Return ==
    /\ pc \in {"done", "error"}
    /\ pc' = "idle"
    /\ op' = "none"
    /\ previous' = IF previous.op = "none"
                   THEN [op |-> op, args |-> RequestArgs, result |-> result]
                   ELSE previous
    /\ position' = 0
    /\ batch_in' = <<>>
    /\ weights' = <<>>
    /\ call' = NoCall
    /\ acc' = InitialAcc
    /\ result' = Raised("none")
    /\ UNCHANGED <<settings, morpher, morphing, event_file, luminosity, cuts,
                   efficiency_functions, observable, reader>>
    /\ UNCHANGED la_vars

\* the engine serving the 2D histogram request
InitHist2d ==
    /\ InitCutInputs
    /\ settings = CompleteSettings(FALSE)
    /\ EngineUnconstructed
    /\ LinAlgUnused

NextHist2d ==
    \/ Construct
    \/ \E nbins1 \in 1..NBins, nbins2 \in 1..NBins : StartHist2d(nbins1, nbins2)
    \/ NextBatch
    \/ Finish

SpecHist2d == InitHist2d /\ [][NextHist2d]_vars

\* the engine with expressions that name something else than an observable
InitNames ==
    /\ InitNameInputs
    /\ settings = CompleteSettings(FALSE)
    /\ EngineUnconstructed
    /\ LinAlgUnused

NextNames ==
    \/ Construct
    \/ \E o \in Requests : StartRequest(o)
    \/ StartHist1dDynamic
    \/ NextBatch
    \/ Finish

SpecNames == InitNames /\ [][NextNames]_vars

----------------------------------------------------------------------------
(* The caller of the two functions *)

\* lists of distinct valid indices of an n x n matrix, in any order
ValidKeepLists(n) == {s \in SeqsUpTo(0..(n - 1), n) : Injective(s)}

\* lists with a duplicate, a negative or a too large index
InvalidKeepLists(n) == {<<0, 0>>, <<-1>>, <<0, -1>>, <<n>>, <<0, n>>}

KeepLists(n) == ValidKeepLists(n) \cup InvalidKeepLists(n)

InitLinAlg ==
    /\ la_pc = "idle"
    /\ la_call = "none"
    /\ \E n \in 1..MaxDim :
          /\ fisher_information \in InputMatrices(n, EntryValues)
          /\ remaining_components \in KeepLists(n)
    /\ la_result = Raised("none")
    /\ EngineUnused
    /\ reader = NoObservable

Project ==
    /\ la_pc = "idle"
    /\ la_call' = "project"
    /\ la_result' = project_information(fisher_information, remaining_components)
    /\ la_pc' = "done"
    /\ UNCHANGED <<fisher_information, remaining_components>>
    /\ UNCHANGED engine_vars

Profile ==
    /\ la_pc = "idle"
    /\ la_call' = "profile"
    /\ la_result' = profile_information(fisher_information, remaining_components)
    /\ la_pc' = "done"
    /\ UNCHANGED <<fisher_information, remaining_components>>
    /\ UNCHANGED engine_vars

NextLinAlg == Project \/ Profile

SpecLinAlg == InitLinAlg /\ [][NextLinAlg]_vars

\* one engine and one matrix, asked again and again
InitRepeat ==
    /\ morphing = TwoParameterMorphing
    /\ event_file \in EventFiles(ObsValues, {<<FromInt(1), FromInt(2)>>})
    /\ luminosity = FromInt(1)
    /\ cuts = <<CutGt50>>
    /\ efficiency_functions = <<EffHalf>>
    /\ observable = ObservableA
    /\ settings = CompleteSettings(FALSE)
    /\ EngineUnconstructed
    /\ la_pc = "idle"
    /\ la_call = "none"
    /\ fisher_information = DistinctEntriesMatrix(2)
    /\ remaining_components = <<2, 1>>
    /\ la_result = Raised("none")

NextRepeat ==
    \/ Construct
    \/ \E o \in Requests : StartRequest(o)
    \/ StartHist1dDynamic
    \/ StartHist2d(1, NBins)
    \/ ExtractRawData
    \/ NextBatch
    \/ Finish
    \/ Return
    \/ Project
    \/ Profile

SpecRepeat == InitRepeat /\ [][NextRepeat]_vars

----------------------------------------------------------------------------
(* models/readers.py: the construction of an Observable *)

\* the names eval finds at construction: the builtins only
ConstructionVariables == [name \in {} |-> Zero]

\* a val_expression that is a callable, not a string
Callable(name) == [kind |-> "callable", name |-> name, c |-> Zero]

\* a string that is not an expression
Malformed == Expr("malformed", "", Zero)

\* the string "1 / c"
OneOver(c) == Expr("div", "", c)

\* eval(self.val_expression) in the module's globals
eval(val_expression) ==
    CASE val_expression.kind = "malformed" -> Raised("SyntaxError")
      [] val_expression.kind = "div" ->
            IF IsZero(val_expression.c) THEN Raised("ZeroDivisionError")
            ELSE Returned(XDiv(FromInt(1), val_expression.c))
      [] OTHER -> Eval(val_expression, ConstructionVariables)

\* variant: every exception of the evaluation is suppressed
Observable__post_init__suppress_all(self) ==
    IF self.fields.val_expression.kind = "callable"
    THEN [self EXCEPT !.pc = "constructed"]
    ELSE [self EXCEPT !.pc = "constructed", !.evaluations = @ + 1]

\* Observable.__post_init__
Observable__post_init__(self) ==
    IF self.fields.val_expression.kind = "callable"
    THEN [self EXCEPT !.pc = "constructed"]
    ELSE LET r == eval(self.fields.val_expression)
         IN  IF r.status \in {"ok", "NameError"}
             THEN [self EXCEPT !.pc = "constructed", !.evaluations = @ + 1]
             ELSE [self EXCEPT !.pc = "failed", !.evaluations = @ + 1,
                               !.raised = r.status]

ValExpressions ==
    {Expr("const", "", FromInt(1)), Expr("var", "a", Zero), Expr("gt", "b", FromInt(50)),
     Expr("call", "bool", FromInt(1)), Malformed, OneOver(Zero), OneOver(FromInt(2)),
     Callable("f"), Callable("g")}

ObservableArgs ==
    [name : {"a", "b"}, val_expression : ValExpressions,
     val_default : {"None", "0", "1"}, is_required : BOOLEAN]

InitObservable ==
    /\ reader \in {[NoObservable EXCEPT !.pc = "called", !.args = a] : a \in ObservableArgs}
    /\ EngineUnused
    /\ LinAlgUnused

\* the generated __init__ of the dataclass: the fields take the arguments
ObservableInit ==
    /\ reader.pc = "called"
    /\ reader' = [reader EXCEPT !.pc = "post_init", !.fields = reader.args]
    /\ UNCHANGED <<settings, morpher, morphing, event_file, luminosity, cuts,
                   efficiency_functions, observable, pc, op, position, batch_in,
                   weights, call, acc, result, previous>>
    /\ UNCHANGED la_vars

ObservablePostInit ==
    /\ reader.pc = "post_init"
    /\ reader' = Observable__post_init__(reader)
    /\ UNCHANGED <<settings, morpher, morphing, event_file, luminosity, cuts,
                   efficiency_functions, observable, pc, op, position, batch_in,
                   weights, call, acc, result, previous>>
    /\ UNCHANGED la_vars

NextObservable == ObservableInit \/ ObservablePostInit

SpecObservable == InitObservable /\ [][NextObservable]_vars

----------------------------------------------------------------------------
(* Reference definitions for the statements about profiling *)

\* the full two-dimensional block of M at the given rows and columns
SubMatrix(M, rows, cols) ==
    [i \in 1..Len(rows) |-> [j \in 1..Len(cols) |-> M[rows[i] + 1][cols[j] + 1]]]

\* I_keep - I_mix^T . I_marg^{-1} . I_mix with two-dimensional blocks
SchurComplement(M, keep) ==
    LET marg   == profiled_components(Len(M), keep)
        I_marg == SubMatrix(M, marg, marg)
        I_mix  == SubMatrix(M, marg, keep)
        inv(a, b) == Frac(Cofactor(I_marg, b, a), Det(I_marg))
    IN  [i \in 1..Len(keep) |-> [j \in 1..Len(keep) |->
            XSub(FromInt(M[keep[i] + 1][keep[j] + 1]),
                 XSum([a \in 1..Len(marg) |->
                    XSum([b \in 1..Len(marg) |->
                        XMul(FromInt(I_mix[a][i] * I_mix[b][j]), inv(a, b))])]))]]

AsFloats(M) == [i \in 1..Len(M) |-> [j \in 1..Len(M[i]) |-> FromInt(M[i][j])]]

MarginalizedBlock(M, keep) ==
    SubMatrix(M, profiled_components(Len(M), keep), profiled_components(Len(M), keep))

\* distinct indices, each in 0..n-1
ValidKeep(M, keep) == Injective(keep) /\ Range(keep) \subseteq 0..(Len(M) - 1)

ProperNonEmpty(M, keep) == ValidKeep(M, keep) /\ Len(keep) > 0 /\ Len(keep) < Len(M)

BlockDiagonal(M, keep) ==
    \A i \in 1..Len(M), j \in 1..Len(M) :
        ((i - 1) \in Range(keep)) # ((j - 1) \in Range(keep)) => M[i][j] = 0

IdentityList(n) == [i \in 1..n |-> i - 1]

ProjectDone == la_pc = "done" /\ la_call = "project"

ProfileDone == la_pc = "done" /\ la_call = "profile"

----------------------------------------------------------------------------
(* Statements about project_information / profile_information (SpecLinAlg) *)

\* C1: for a list of distinct valid indices, project_information returns the
\* len(keep) x len(keep) matrix R with R[i][j] = M[keep[i]][keep[j]], rows and
\* columns in the given order; with keep = [0..n-1] the result is M itself.
C1_ProjectSelectsInOrder ==
    (ProjectDone /\ ValidKeep(fisher_information, remaining_components)) =>
        /\ la_result.status = "ok"
        /\ Len(la_result.value) = Len(remaining_components)
        /\ \A i \in 1..Len(remaining_components) :
              /\ Len(la_result.value[i]) = Len(remaining_components)
              /\ \A j \in 1..Len(remaining_components) :
                    la_result.value[i][j] =
                        fisher_information[remaining_components[i] + 1][remaining_components[j] + 1]
        /\ (remaining_components = IdentityList(Len(fisher_information))
               => la_result.value = fisher_information)

\* C1 witness: a projection that reorders (keep = [2, 0]) the matrix with
\* distinct entries
C1_Witness ==
    /\ ProjectDone
    /\ remaining_components = <<2, 0>>
    /\ fisher_information[3][1] # fisher_information[1][3]
    /\ la_result.status = "ok"
    /\ la_result.value[1][2] = fisher_information[3][1]

\* C2 (as claimed): for a proper non-empty keep list whose marginalized block
\* is invertible, profile_information returns the Schur complement built from
\* the full two-dimensional blocks.
C2_ProfileIsSchurComplement ==
    (/\ ProfileDone
     /\ ProperNonEmpty(fisher_information, remaining_components)
     /\ Det(MarginalizedBlock(fisher_information, remaining_components)) # 0)
    => /\ la_result.status = "ok"
       /\ la_result.value = SchurComplement(fisher_information, remaining_components)

\* C3 (as claimed): keeping every index returns M unchanged and raises nothing.
C3_ProfileKeepAllIsIdentity ==
    (ProfileDone /\ remaining_components = IdentityList(Len(fisher_information)))
    => /\ la_result.status = "ok"
       /\ la_result.value = AsFloats(fisher_information)

\* C4 (as claimed): on a block-diagonal matrix with an invertible marginalized
\* block, profile_information returns exactly the keep-keep submatrix.
C4_ProfileBlockDiagonalKeepsBlock ==
    (/\ ProfileDone
     /\ ProperNonEmpty(fisher_information, remaining_components)
     /\ BlockDiagonal(fisher_information, remaining_components)
     /\ Det(MarginalizedBlock(fisher_information, remaining_components)) # 0)
    => /\ la_result.status = "ok"
       /\ la_result.value =
              AsFloats(SubMatrix(fisher_information, remaining_components, remaining_components))

\* every call of profile_information ends in an exception: the three blocks
\* are one-dimensional, and np.linalg.inv rejects a one-dimensional array
ProfileAlwaysRaises ==
    ProfileDone => la_result.status \in {"LinAlgError", "IndexError", "AssertionError"}

\* a keep list of distinct valid indices leaves a non-empty marginalized set
\* whose block is singular
SingularMarginalizedBlock ==
    /\ ValidKeep(fisher_information, remaining_components)
    /\ Len(remaining_components) < Len(fisher_information)
    /\ Det(MarginalizedBlock(fisher_information, remaining_components)) = 0

\* C18: profile_information with a non-empty marginalized set whose block is
\* singular ends with an error and returns no matrix
C18_SingularBlockIsAnError ==
    (ProfileDone /\ SingularMarginalizedBlock) => la_result.status # "ok"

\* C18 witness: diag(1, 0) profiled onto component 0; the marginalized block
\* is (0) and the call ends in LinAlgError
C18_Witness ==
    /\ ProfileDone
    /\ SingularMarginalizedBlock
    /\ fisher_information = <<<<1, 0>>, <<0, 0>>>>
    /\ remaining_components = <<0>>
    /\ la_result = Raised("LinAlgError")

\* C19 (as claimed): a keep list with a duplicate, a negative or a too large
\* index makes project_information and profile_information end with an error
C19_InvalidKeepListIsRejected ==
    ((ProjectDone \/ ProfileDone) /\ ~ValidKeep(fisher_information, remaining_components))
    => la_result.status # "ok"

\* profile_information rejects every such list (the assert of line 103)
ProfileRejectsInvalidKeepList ==
    (ProfileDone /\ ~ValidKeep(fisher_information, remaining_components))
    => la_result.status = "AssertionError"

\* project_information rejects only an index outside -n..n-1
ProjectRejectsOnlyOutOfBounds ==
    ProjectDone =>
        (la_result.status # "ok" <=>
            \E i \in 1..Len(remaining_components) :
                ~IndexOk(remaining_components[i], Len(fisher_information)))

----------------------------------------------------------------------------
(* Statements about the engine (SpecEngine)                                *)

\* the quantities of the formula, written out from the morphing matrices
ClaimSigma(w) ==
    XSum([b \in 1..Len(w) |-> XMul(morphing.theta_matrix[b], w[b])])

ClaimInvSigma(w) ==
    IF IsFinite(ClaimSigma(w)) /\ ~IsZero(ClaimSigma(w)) THEN XRecip(ClaimSigma(w)) ELSE Zero

ClaimDSigma(i, w) ==
    XSum([b \in 1..Len(w) |-> XMul(morphing.dtheta_matrix[i][b], w[b])])

ClaimEntry(w, i, j) ==
    XMul(luminosity, XMul(ClaimInvSigma(w), XMul(ClaimDSigma(i, w), ClaimDSigma(j, w))))

\* an invocation of _calculate_fisher_information without nuisance parameters
\* and without uncertainties has been made
PlainCall == call.made /\ op # "tensor_nuisance" /\ ~call.calculate_uncertainty

PerEventCall == PlainCall /\ ~call.sum_events

\* every benchmark weight of the event file is a finite number
FiniteFile ==
    \A n \in 1..Len(event_file) : \A b \in 1..Len(event_file[n].w) : IsFinite(event_file[n].w[b])

\* every Fisher matrix held in the state: the result of the last invocation
\* (per event, or summed over the batch), the running totals of the batch
\* loops, the per-bin sums and the returned matrices
FisherMatrices ==
    (IF call.made /\ op # "tensor_nuisance" /\ call.result.status = "ok"
     THEN (IF call.sum_events THEN {call.result.value} ELSE Range(call.result.value))
     ELSE {})
    \cup (IF op \in Requests
          THEN {acc.fisher_info} \cup Range(acc.fisher_info_full_bins)
          ELSE {})
    \cup (IF pc = "done" /\ op \in {"full_truth", "rate", "hist1d"} THEN {result.value} ELSE {})
    \cup (IF pc = "done" /\ op = "histogram_of_information"
          THEN Range(result.value.fisher_info_rate_bins)
               \cup Range(result.value.fisher_info_full_bins)
          ELSE {})

\* C5: without nuisance parameters the physical block of one event is
\* luminosity * inv_sigma[n] * dsigma[i][n] * dsigma[j][n] at every (i, j),
\* with sigma = theta_matrix . w, dsigma = dtheta_matrix . w and inv_sigma the
\* reciprocal of a finite non-zero sigma (0 otherwise); with sum_events the
\* result is the sum of these over the events
C5_PhysicalBlockFormula ==
    PlainCall =>
        /\ call.result.status = "ok"
        /\ IF call.sum_events
           THEN call.result.value =
                    [i \in 1..n_parameters |-> [j \in 1..n_parameters |->
                        XSum([n \in 1..Len(call.weights_benchmarks) |->
                                 ClaimEntry(call.weights_benchmarks[n], i, j)])]]
           ELSE call.result.value =
                    [n \in 1..Len(call.weights_benchmarks) |->
                        [i \in 1..n_parameters |-> [j \in 1..n_parameters |->
                            ClaimEntry(call.weights_benchmarks[n], i, j)]]]

\* one parameter, one weight vector (2, -1), luminosity 2: sigma = 2,
\* dsigma = -3, and the information is 2 * 9 / 2 = 9
C5_Witness ==
    /\ PerEventCall
    /\ morphing = LinearMorphing
    /\ luminosity = FromInt(2)
    /\ call.weights_benchmarks = << <<FromInt(2), FromInt(-1)>> >>
    /\ call.result.value = << << <<FromInt(9)>> >> >>

\* C6: every Fisher matrix (per event, summed over a batch, summed in a bin,
\* running total, returned) has the same value at (i, j) and at (j, i)
C6_MatricesSymmetric ==
    \A M \in FisherMatrices :
        \A i \in 1..Len(M) : \A j \in 1..Len(M) : M[i][j] = M[j][i]

\* two batches with weights (2, -1) have been summed into one bin of the
\* two-parameter histogram: off-diagonal entries 2 + 2, diagonal 12 and 4/3
C6_Witness ==
    /\ op = "histogram_of_information"
    /\ morphing = TwoParameterMorphing
    /\ Len(event_file) = 2
    /\ position = 2
    /\ \E i \in 1..n_bins_total :
          acc.fisher_info_full_bins[i] =
              << <<FromInt(12), FromInt(4)>>, <<FromInt(4), Frac(4, 3)>> >>

\* C7: for a luminosity >= 0 and any finite benchmark weights, negative ones
\* included, every diagonal entry of every physical-block Fisher matrix is >= 0
C7_DiagonalNonNegative ==
    (FiniteFile /\ XNonNegative(luminosity)) =>
        \A M \in FisherMatrices : \A i \in 1..Len(M) : XNonNegative(M[i][i])

\* C8: an event whose sigma is zero or not finite gets inv_sigma = 0 and
\* contributes an all-zero matrix; nothing is raised, and every event's
\* contribution is what the event gives on its own
C8_ZeroOrNonFiniteSigmaContributesZero ==
    PerEventCall =>
        /\ call.result.status = "ok"
        /\ \A n \in 1..Len(call.weights_benchmarks) :
              LET w == call.weights_benchmarks[n]
              IN  /\ (IsZero(ClaimSigma(w)) \/ ~IsFinite(ClaimSigma(w))) =>
                        /\ inv_sigma_of(morphing.theta_matrix, w) = Zero
                        /\ call.result.value[n] = ZeroMatrix(n_parameters)
                  /\ call.result.value[n] =
                        _calculate_fisher_information(morphing, <<w>>, luminosity,
                                                      FALSE, FALSE).value[1]

\* the part of C8 about a sigma of exactly zero: inv_sigma is 0 and the
\* contribution is the zero matrix
ZeroSigmaContributesZero ==
    PerEventCall =>
        \A n \in 1..Len(call.weights_benchmarks) :
            IsZero(ClaimSigma(call.weights_benchmarks[n])) =>
                /\ inv_sigma_of(morphing.theta_matrix, call.weights_benchmarks[n]) = Zero
                /\ call.result.value[n] = ZeroMatrix(n_parameters)

\* a sigma that is not finite gives inv_sigma = 0 as well
NonFiniteSigmaHasZeroInverse ==
    PerEventCall =>
        \A n \in 1..Len(call.weights_benchmarks) :
            ~IsFinite(ClaimSigma(call.weights_benchmarks[n])) =>
                inv_sigma_of(morphing.theta_matrix, call.weights_benchmarks[n]) = Zero

\* C9: an event with a negative cross section sigma is sanitized to a zero
\* contribution, without an error
C9_NegativeSigmaContributesZero ==
    PerEventCall =>
        /\ call.result.status = "ok"
        /\ \A n \in 1..Len(call.weights_benchmarks) :
              XNegative(ClaimSigma(call.weights_benchmarks[n])) =>
                  call.result.value[n] = ZeroMatrix(n_parameters)

\* the value of a cut and of an efficiency expression on an event
CutTrue(cut, e) ==
    CASE cut.kind = "gt" -> XLess(cut.c, e.obs[1])
      [] cut.kind = "lt" -> XLess(e.obs[1], cut.c)

EfficiencyValue(f, e) ==
    CASE f.kind = "const" -> f.c
      [] f.kind = "var"   -> e.obs[1]

PassesEveryCut(e) == \A k \in 1..Len(cuts) : CutTrue(cuts[k], e)

EfficiencyProduct(e) ==
    LET RECURSIVE Prod(_)
        Prod(k) == IF k = 0 THEN FromInt(1)
                   ELSE XMul(Prod(k - 1), EfficiencyValue(efficiency_functions[k], e))
    IN  Prod(Len(efficiency_functions))

ExpectedWeights(batch) ==
    LET kept == SelectSeq(batch, PassesEveryCut)
    IN  [n \in 1..Len(kept) |->
            [b \in 1..Len(kept[n].w) |-> XMul(kept[n].w[b], EfficiencyProduct(kept[n]))]]

\* C10: in every aggregation request, after a batch has been read the
\* weights that are accumulated are those of the events for which every cut is
\* true, in order, each benchmark weight multiplied by the product of the
\* efficiency expressions on that event
C10_CutsThenEfficiencies ==
    (op \in Requests /\ position > 0) => weights = ExpectedWeights(batch_in)

\* the cut a > 50 has removed the event with a = 50 and kept the one with
\* a = 51, whose weights (2, 1) were halved by the efficiency 0.5
C10_Witness ==
    /\ op \in Requests
    /\ cuts = <<CutGt50>>
    /\ efficiency_functions = <<EffHalf>>
    /\ Len(event_file) = 2
    /\ event_file[1].obs = <<FromInt(50)>>
    /\ event_file[2] = [obs |-> <<FromInt(51)>>, w |-> <<FromInt(2), FromInt(1)>>]
    /\ position = 2
    /\ weights = << <<FromInt(1), Frac(1, 2)>> >>

\* no event of the file passes the cuts
NoEventSurvives == \A n \in 1..Len(event_file) : ~PassesEveryCut(event_file[n])

\* the request has ended, by a return or by an exception
RequestEnded == pc \in {"done", "error"}

\* C11: when the loader yields at least one batch but no event survives the
\* cuts, _calculate_xsec and calculate_fisher_information_rate end with the
\* "No events passed cuts" error (the assertion of line 1317)
C11_NoSurvivorIsNoEventsError ==
    (op \in {"xsec", "rate"} /\ RequestEnded /\ Len(event_file) > 0 /\ NoEventSurvives)
        => result.status = "AssertionError"

\* the "No events passed cuts" assertion fires exactly when the loader
\* yields no batch at all
NoEventsErrorOnlyWithoutBatches ==
    (op \in {"xsec", "rate"} /\ RequestEnded)
        => (result.status = "AssertionError" <=> Len(event_file) = 0)

\* with at least one batch, calculate_fisher_information_rate ends with the
\* same exception whether or not an event survives the cuts
RateErrorNotDistinct ==
    (op = "rate" /\ RequestEnded /\ Len(event_file) > 0) => result.status = "TypeError"

\* the events the loader has yielded so far
Processed == SubSeq(event_file, 1, position)

\* the orders in which n events can be taken
Perms(n) == {f \in [1..n -> 1..n] : \A i \in 1..n : \A j \in 1..n : f[i] = f[j] => i = j}

\* the efficiency-weighted benchmark weight b of an event, 0 if a cut removes it
Contribution(e, b) ==
    IF PassesEveryCut(e) THEN XMul(e.w[b], EfficiencyProduct(e)) ELSE Zero

\* the sum, and the sum of squares, over the events that satisfy InSet, taken
\* in the order f in one go
OrderedSum(events, f, InSet(_)) ==
    [b \in 1..n_benchmarks |->
        XSum([k \in 1..Len(events) |->
                 IF InSet(events[f[k]]) THEN Contribution(events[f[k]], b) ELSE Zero])]

OrderedSumOfSquares(events, f, InSet(_)) ==
    [b \in 1..n_benchmarks |->
        XSum([k \in 1..Len(events) |->
                 IF InSet(events[f[k]])
                 THEN XMul(Contribution(events[f[k]], b), Contribution(events[f[k]], b))
                 ELSE Zero])]

AnyEvent(e) == TRUE

\* the bin (0-based) in which the histogrammed observable "a" of an event
\* lies: the number of boundaries below it
BinOf(boundaries, e) == Cardinality({k \in 1..Len(boundaries) : XLess(boundaries[k], e.obs[1])})

IdentityPerm(n) == [k \in 1..n |-> k]

\* the sum over the events read so far that satisfy InSet
SumOver(InSet(_)) == OrderedSum(Processed, IdentityPerm(position), InSet)

BelowRange(e) == XLess(e.obs[1], FromInt(histrange[1]))

AboveRange(e) == XLess(FromInt(histrange[2]), e.obs[1])

InsideRange(e) == ~BelowRange(e) /\ ~AboveRange(e)

\* a request with fixed-width bins is accumulating or has ended
FixedBinning ==
    \/ op = "histogram_of_information"
    \/ op = "hist1d" /\ ~acc.dynamic_binning

\* the per-bin weight sums of the request with fixed-width bins
FixedBinSums ==
    IF op = "hist1d" THEN acc.weights_benchmarks ELSE acc.weights_benchmarks_bins

\* C13: with fixed-width binning over (min, max) there are n_bins + 2 bins;
\* bin 0 holds exactly the events with observable < min, bin n_bins + 1
\* exactly those with observable > max, and the bins 1..n_bins hold every
\* event with min <= observable <= max
C13_OverflowBinsArePureOverflow ==
    FixedBinning =>
        /\ Len(FixedBinSums) = NBins + 2
        /\ FixedBinSums[1] = SumOver(BelowRange)
        /\ FixedBinSums[NBins + 2] = SumOver(AboveRange)
        /\ VecSum(SubSeq(FixedBinSums, 2, NBins + 1), n_benchmarks) = SumOver(InsideRange)

\* an event is in bin 0 exactly if its observable is <= min: np.searchsorted
\* counts the boundaries strictly below the value
UnderflowBinTakesMinimum ==
    FixedBinning =>
        LET AtMostMin(e) == ~XLess(FromInt(histrange[1]), e.obs[1])
        IN  FixedBinSums[1] = SumOver(AtMostMin)

\* the rate-only Fisher information of an aggregated benchmark weight vector
RateInformation(w) ==
    [i \in 1..n_parameters |-> [j \in 1..n_parameters |-> ClaimEntry(w, i, j)]]

\* the global rate-only information: of the weights of all filtered events
GlobalRateInformation == RateInformation(SumOver(AnyEvent))

HistogramReturned == op = "histogram_of_information" /\ pc = "done"

\* every filtered event read lies in the same bin
AllInOneBin ==
    \E i \in 0..(NBins + 1) :
        \A n \in 1..position :
            PassesEveryCut(event_file[n]) => BinOf(bin_boundaries, event_file[n]) = i

\* C14 (as claimed): the per-bin rate-only informations returned by
\* histogram_of_fisher_information, summed over all bins, equal the global
\* rate-only information of the aggregated weights of the filtered events
C14_BinRatesSumToGlobalRate ==
    HistogramReturned =>
        MatSum(result.value.fisher_info_rate_bins, n_parameters) = GlobalRateInformation

\* C14 (amended): each per-bin rate-only information is the rate-only
\* information of the weights aggregated in that bin; the sum over the bins
\* equals the global rate-only information when all filtered events lie in
\* one bin
C14_BinRatesArePerBin ==
    HistogramReturned =>
        /\ \A i \in 1..(NBins + 2) :
              LET InBin_i(e) == BinOf(bin_boundaries, e) = i - 1
              IN  result.value.fisher_info_rate_bins[i] = RateInformation(SumOver(InBin_i))
        /\ AllInOneBin =>
              MatSum(result.value.fisher_info_rate_bins, n_parameters) = GlobalRateInformation

\* events (a = 50, w = (1, 2)) and (a = 51, w = (2, 1)) fall into two bins:
\* the bin rates add up to 9/20 at (1, 1), the global rate there is 0
C14_Witness ==
    /\ HistogramReturned
    /\ cuts = <<>>
    /\ efficiency_functions = <<>>
    /\ event_file = << [obs |-> <<FromInt(50)>>, w |-> <<FromInt(1), FromInt(2)>>],
                       [obs |-> <<FromInt(51)>>, w |-> <<FromInt(2), FromInt(1)>>] >>
    /\ MatSum(result.value.fisher_info_rate_bins, n_parameters)[1][1] = Frac(9, 20)
    /\ GlobalRateInformation[1][1] = Zero

Hist1dRequest == op = "hist1d"

\* C15: in the 1D aggregation, with fixed-width and with dynamic bins, the
\* bin-index assertion never fails, every filtered event read lies in exactly
\* one bin 0..n_bins_total-1, the sum and the sum of squares of each bin are
\* those of the efficiency-weighted weight vectors of the events of that bin,
\* and the bins together hold the total over all filtered events
C15_EveryEventInExactlyOneBin ==
    Hist1dRequest =>
        /\ result.status # "AssertionError"
        /\ Len(acc.weights_benchmarks) = acc.n_bins_total
        /\ Len(acc.weights_squared_benchmarks) = acc.n_bins_total
        /\ \A n \in 1..position :
              BinOf(acc.bin_boundaries, event_file[n]) \in 0..(acc.n_bins_total - 1)
        /\ \A i \in 1..acc.n_bins_total :
              LET InBin_i(e) == BinOf(acc.bin_boundaries, e) = i - 1
              IN  /\ acc.weights_benchmarks[i] = SumOver(InBin_i)
                  /\ acc.weights_squared_benchmarks[i] =
                        OrderedSumOfSquares(Processed, IdentityPerm(position), InBin_i)
        /\ VecSum(acc.weights_benchmarks, n_benchmarks) = SumOver(AnyEvent)
        /\ VecSum(acc.weights_squared_benchmarks, n_benchmarks) =
               OrderedSumOfSquares(Processed, IdentityPerm(position), AnyEvent)

\* dynamic binning with the boundary 50: the event with a = 50 is in bin 0
\* and the event with a = 51 in bin 1, each with its weights and squares
C15_Witness ==
    /\ Hist1dRequest
    /\ acc.dynamic_binning
    /\ cuts = <<>>
    /\ efficiency_functions = <<>>
    /\ position = 2
    /\ event_file = << [obs |-> <<FromInt(50)>>, w |-> <<FromInt(1), FromInt(2)>>],
                       [obs |-> <<FromInt(51)>>, w |-> <<FromInt(2), FromInt(1)>>] >>
    /\ acc.weights_benchmarks = << <<FromInt(1), FromInt(2)>>, <<FromInt(2), FromInt(1)>> >>
    /\ acc.weights_squared_benchmarks =
           << <<FromInt(1), FromInt(4)>>, <<FromInt(4), FromInt(1)>> >>

\* the call that was made, repeated with sum_events=False
PerEventRepeat ==
    _calculate_fisher_information(morphing, call.weights_benchmarks, luminosity, FALSE,
                                  call.calculate_uncertainty)

\* C16: sum_events controls the event axis of both outputs: with
\* sum_events=True the information (and, with calculate_uncertainty, the
\* covariance) is returned summed over the events, the summed information
\* being the sum of the per-event matrices returned with sum_events=False;
\* with sum_events=False there is one entry per event.  With
\* calculate_uncertainty the value returned is the pair (information,
\* covariance).
C16_SumEventsReducesBothOutputs ==
    (call.made /\ op # "tensor_nuisance") =>
        /\ call.result.status = "ok"
        /\ PerEventRepeat.status = "ok"
        /\ LET information(r) == IF call.calculate_uncertainty THEN r.value[1] ELSE r.value
               covariance(r) == r.value[2]
           IN  /\ call.sum_events =>
                     information(call.result) = MatSum(information(PerEventRepeat), n_parameters)
               /\ ~call.sum_events =>
                     Len(information(call.result)) = Len(call.weights_benchmarks)
               /\ (call.calculate_uncertainty /\ ~call.sum_events) =>
                     Len(covariance(call.result)) = Len(call.weights_benchmarks)

\* the part of C16 without calculate_uncertainty: the summed information is
\* the sum of the per-event matrices, and sum_events=False keeps one matrix
\* per event
SumEventsWithoutUncertainty ==
    PlainCall =>
        /\ call.result.status = "ok"
        /\ call.sum_events => call.result.value = MatSum(PerEventRepeat.value, n_parameters)
        /\ ~call.sum_events => Len(call.result.value) = Len(call.weights_benchmarks)

\* every call with calculate_uncertainty ends in TypeError
UncertaintyAlwaysRaises ==
    (call.made /\ op # "tensor_nuisance" /\ call.calculate_uncertainty) =>
        call.result.status = "TypeError"

\* _calculate_fisher_information was called with include_nuisance_parameters
\* and calculate_uncertainty both set
NuisanceUncertaintyCall ==
    call.made /\ op = "tensor_nuisance" /\ call.calculate_uncertainty

NuisanceUncertaintyErrorIsIncidental ==
    NuisanceUncertaintyCall => call.result.status \in {"TypeError", "ValueError"}

FullDetectorEnded == op = "full_detector" /\ pc \in {"done", "error"}

UnknownMode == acc.full_detector.mode \notin ModeValues

UnknownUncertainty == acc.full_detector.uncertainty \notin UncertaintyValues

\* C20 (as claimed): with an unknown mode or an unknown uncertainty,
\* calculate_fisher_information_full_detector ends with an error, whatever
\* the estimator, before the event loader is asked for a batch and before an
\* estimator is loaded
C20_UnknownModeOrUncertaintyFailsFirst ==
    (FullDetectorEnded /\ (UnknownMode \/ UnknownUncertainty)) =>
        /\ result.status # "ok"
        /\ ~acc.full_detector.loader_called
        /\ ~acc.full_detector.model_loaded

\* the part about mode holds: ValueError before anything else happens
UnknownModeFailsFirst ==
    (FullDetectorEnded /\ UnknownMode) =>
        /\ result = Raised("ValueError")
        /\ ~acc.full_detector.loader_called
        /\ ~acc.full_detector.model_loaded

\* with a known mode the event loader is always asked for batches, and with a
\* single estimator an unknown uncertainty never causes an error
UnknownUncertaintyIsNotChecked ==
    (FullDetectorEnded /\ ~UnknownMode /\ UnknownUncertainty) =>
        /\ acc.full_detector.loader_called
        /\ (/\ ~acc.full_detector.model_is_ensemble
            /\ ~acc.full_detector.include_xsec_info
            /\ Len(event_file) > 0) => result.status = "ok"

----------------------------------------------------------------------------
(* Statements about the constructor (SpecEngine) *)

SettingsLackMorphing == ~settings.morphing_matrix \/ ~settings.morphing_components

Constructed == pc \notin {"unconstructed", "construction_failed"}

\* C21: the constructor fails whenever the loaded settings lack the morphing
\* matrix or the morphing components; every constructed engine has a morpher
\* with components and basis set, in every state reached afterwards
C21_ConstructedEngineHasMorpher ==
    /\ (pc # "unconstructed" /\ SettingsLackMorphing) =>
           (pc = "construction_failed" /\ result = Raised("RuntimeError"))
    /\ Constructed =>
           (~morpher.none /\ morpher.components_set /\ morpher.basis_set)

\* C21 witness: the matrix is there, the components are not: RuntimeError
C21_Witness ==
    /\ pc = "construction_failed"
    /\ settings.morphing_matrix
    /\ ~settings.morphing_components
    /\ result = Raised("RuntimeError")
    /\ morpher.none

----------------------------------------------------------------------------
(* Statements about the evaluation of expressions (SpecNames) *)

\* the name of the expression is neither a declared observable nor a math function
ForeignName(e) == e.kind # "const" /\ e.name \notin Range(observables)

\* eval() cannot resolve the name at all
UnresolvedName(e) == ForeignName(e) /\ e.name \notin builtins

HistogramRequest == op \in {"hist1d", "histogram_of_information"}

\* the request has evaluated, for the first event of the file, an expression
\* that satisfies Q: the first cut, or with no cuts the first efficiency, or
\* with neither the observable of a histogram
FirstEvaluated(Q(_)) ==
    /\ op \in Requests
    /\ RequestEnded
    /\ Len(event_file) > 0
    /\ \A n \in 1..Len(event_file) : Len(event_file[n].obs) = Len(observables)
    /\ \/ Len(cuts) > 0 /\ Q(cuts[1])
       \/ cuts = <<>> /\ Len(efficiency_functions) > 0 /\ Q(efficiency_functions[1])
       \/ cuts = <<>> /\ efficiency_functions = <<>> /\ HistogramRequest /\ Q(observable)

\* C22 (as claimed): an evaluated expression whose name is neither an
\* observable nor a math function ends the request with an error
C22_ForeignNameIsAnError ==
    FirstEvaluated(ForeignName) => result.status # "ok"

\* a name that eval() cannot resolve ends the request with NameError
UnresolvedNameIsNameError ==
    FirstEvaluated(UnresolvedName) => result = Raised("NameError")

\* an observation vector of the wrong length is rejected by the assert that
\* precedes every evaluation
WrongLengthIsRejected ==
    (/\ op \in Requests
     /\ RequestEnded
     /\ Len(event_file) > 0
     /\ Len(event_file[1].obs) # Len(observables)
     /\ (cuts # <<>> \/ efficiency_functions # <<>> \/ HistogramRequest))
    => result = Raised("AssertionError")

----------------------------------------------------------------------------
(* Statements about the propagation of uncertainties (SpecEngine) *)

\* _calculate_fisher_information was called with calculate_uncertainty set,
\* without nuisance parameters
UncertaintyCall == call.made /\ op # "tensor_nuisance" /\ call.calculate_uncertainty

\* C23 (as claimed): with calculate_uncertainty the call returns for every
\* non-empty batch, and the input covariance has at (n, b1, b2) the product
\* uncertainty[n][b1] * uncertainty[n][b2] (the uncertainties are the weights)
C23_CovarianceInputsFullyCorrelated ==
    (UncertaintyCall /\ Len(call.weights_benchmarks) > 0) =>
        /\ call.result.status = "ok"
        /\ covariance_inputs(call.weights_benchmarks) =
               [n \in 1..Len(call.weights_benchmarks) |->
                   [b1 \in 1..n_benchmarks |-> [b2 \in 1..n_benchmarks |->
                       XMul(call.weights_benchmarks[n][b1], call.weights_benchmarks[n][b2])]]]

\* the entries that the loop of lines 1100-1108 sets are those with
\* n = b1 = b2; in particular no off-diagonal entry is ever set
CovarianceInputsSetOnlyWhereIndicesAgree ==
    UncertaintyCall =>
        \A n \in 1..Len(call.weights_benchmarks) : \A b1, b2 \in 1..n_benchmarks :
            ~(n = b1 /\ b1 = b2) =>
                covariance_inputs(call.weights_benchmarks)[n][b1][b2] = Zero

\* the derivative of luminosity * dsigma_i * dsigma_j / sigma with respect to
\* the benchmark weight b of the event, term by term as the code takes them
\* (inverse of sigma and terms sanitized), the third term subtracted
ProductRuleJacobian(w, i, j, b) ==
    XMul(luminosity, XSub(XAdd(temp1(morphing, w, i, j, b), temp2(morphing, w, i, j, b)),
                          temp3(morphing, w, i, j, b)))

\* C24 (as claimed): the Jacobian of the uncertainty propagation is the
\* product-rule derivative, the term from inv_sigma entering with a minus sign
C24_JacobianIsProductRuleDerivative ==
    UncertaintyCall =>
        \A n \in 1..Len(call.weights_benchmarks) :
            \A i, j \in 1..n_parameters : \A b \in 1..n_benchmarks :
                jacobian(morphing, call.weights_benchmarks[n], luminosity)[i][j][b]
                    = ProductRuleJacobian(call.weights_benchmarks[n], i, j, b)

\* the Jacobian of line 1117 exceeds the derivative by twice the third term
\* (stated for the direct calls)
JacobianAddsTheThirdTerm ==
    (UncertaintyCall /\ op = "tensor") =>
        \A n \in 1..Len(call.weights_benchmarks) :
            \A i, j \in 1..n_parameters : \A b \in 1..n_benchmarks :
                XSub(jacobian(morphing, call.weights_benchmarks[n], luminosity)[i][j][b],
                     ProductRuleJacobian(call.weights_benchmarks[n], i, j, b))
                    = XMul(luminosity,
                           XMul(FromInt(2), temp3(morphing, call.weights_benchmarks[n], i, j, b)))

----------------------------------------------------------------------------
(* Statements about the 2D histogram (SpecHist2d) *)

Hist2dRequest == op = "hist2d"

\* the bins of the two axes in which an event lies
Bin1Of(e) == BinOf(acc.hist2d.bin1_boundaries, e)

Bin2Of(e) == BinOf(acc.hist2d.bin2_boundaries, e)

\* the sum of the weights of all bins of the grid
Hist2dTotal == VecSum(Flatten(acc.hist2d.weights_benchmarks), n_benchmarks)

\* C25 (as claimed): the accumulator has (nbins1 + 2) x (nbins2 + 2) bins,
\* every filtered event read is accumulated in the bin of its two indices,
\* and the bins together hold the total weight of the filtered events
C25_EveryEventInOneBinOfTheGrid ==
    Hist2dRequest =>
        /\ Len(acc.hist2d.weights_benchmarks) = acc.hist2d.nbins1 + 2
        /\ \A i \in 1..Len(acc.hist2d.weights_benchmarks) :
              Len(acc.hist2d.weights_benchmarks[i]) = acc.hist2d.nbins2 + 2
        /\ \A i \in 1..(acc.hist2d.nbins1 + 2) : \A j \in 1..(acc.hist2d.nbins2 + 2) :
              LET InBin_ij(e) == Bin1Of(e) = i - 1 /\ Bin2Of(e) = j - 1
              IN  acc.hist2d.weights_benchmarks[i][j] = SumOver(InBin_ij)
        /\ Hist2dTotal = SumOver(AnyEvent)

\* what the code does: both axes have nbins1 + 2 bins, and the grid holds the
\* events whose second index is below nbins1 + 2; the others are left out
\* without an error
Hist2dGridIsSquare ==
    Hist2dRequest =>
        /\ Len(acc.hist2d.weights_benchmarks) = acc.hist2d.nbins1 + 2
        /\ \A i \in 1..Len(acc.hist2d.weights_benchmarks) :
              Len(acc.hist2d.weights_benchmarks[i]) = acc.hist2d.nbins1 + 2
        /\ result.status # "AssertionError"
        /\ LET Counted(e) == Bin2Of(e) < acc.hist2d.nbins1 + 2
           IN  Hist2dTotal = SumOver(Counted)

\* the failing case of C25: nbins2 > nbins1, the request has returned and an
\* event that passed the cuts is in no bin
Hist2dEventLeftOut ==
    /\ Hist2dRequest
    /\ pc = "done"
    /\ acc.hist2d.nbins2 > acc.hist2d.nbins1
    /\ Hist2dTotal # SumOver(AnyEvent)

----------------------------------------------------------------------------
(* Statements about the nuisance parameters (SpecEngine) *)

\* _calculate_fisher_information was called with include_nuisance_parameters
\* set and without uncertainties
NuisanceCall == call.made /\ op = "tensor_nuisance" /\ ~call.calculate_uncertainty

\* the number of nuisance parameters of the call
NuisanceCount == Len(call.weights_benchmarks[1]) - n_benchmarks

\* m is a block-symmetric (P + N) x (P + N) matrix whose physical block is
\* the information of the event without nuisance parameters
ExtendedInformation(m, phys) ==
    /\ Len(m) = n_parameters + NuisanceCount
    /\ \A i \in 1..Len(m) : Len(m[i]) = n_parameters + NuisanceCount
    /\ \A i \in 1..Len(m) : \A j \in 1..Len(m) : m[i][j] = m[j][i]
    /\ \A i \in 1..n_parameters : \A j \in 1..n_parameters : m[i][j] = phys[i][j]

\* C26 (as claimed): with include_nuisance_parameters the call returns, for a
\* batch of one or of many events, one block-symmetric (P+N) x (P+N) matrix per
\* event (one in all with sum_events) whose physical block is the result
\* without nuisance parameters
C26_ExtendedInformationPerEvent ==
    NuisanceCall =>
        /\ call.result.status = "ok"
        /\ call.result.value.ndim = (IF call.sum_events THEN 2 ELSE 3)
        /\ IF call.sum_events
           THEN ExtendedInformation(call.result.value.data,
                    MatSum([n \in 1..Len(call.weights_benchmarks) |->
                               fisher_info_phys(morphing, call.weights_benchmarks[n], luminosity)],
                           n_parameters))
           ELSE \A n \in 1..Len(call.weights_benchmarks) :
                    ExtendedInformation(call.result.value.data[n],
                        fisher_info_phys(morphing, call.weights_benchmarks[n], luminosity))

\* what the code does: more than one event, or more than one parameter, is a
\* ValueError; one event with one parameter and one nuisance parameter gives
\* one two-dimensional matrix, block-symmetric, without the event axis, and
\* sum_events then sums its rows
NuisanceCallOfOneEventOnly ==
    NuisanceCall =>
        IF Len(call.weights_benchmarks) = 1 /\ n_parameters = 1 /\ NuisanceCount = 1
        THEN /\ call.result.status = "ok"
             /\ call.result.value.ndim = (IF call.sum_events THEN 1 ELSE 2)
             /\ ~call.sum_events =>
                    ExtendedInformation(call.result.value.data,
                        fisher_info_phys(morphing, call.weights_benchmarks[1], luminosity))
        ELSE call.result = Raised("ValueError")

----------------------------------------------------------------------------
(* Statements about histogram_of_fisher_information and the full            *)
(* truth-level request (SpecEngine)                                         *)

\* the per-bin full informations and cross sections returned, summed over
\* the n_bins + 2 bins
FullBinsTotal == MatSum(result.value.fisher_info_full_bins, n_parameters)

SigmaBinsTotal == XSum(result.value.sigma_bins)

\* the per-event information summed over the filtered events of the file
FilteredEventsInformation ==
    MatSum([n \in 1..Len(ExpectedWeights(event_file)) |->
               fisher_info_phys(morphing, ExpectedWeights(event_file)[n], luminosity)],
           n_parameters)

\* C27 (as claimed): the per-bin full informations of
\* histogram_of_fisher_information add up to the matrix that
\* calculate_fisher_information_full_truth returns for the same events, cuts
\* and efficiencies, and the per-bin cross sections add up to the total cross
\* section at theta of the filtered events
C27_BinsAddUpToFullTruth ==
    HistogramReturned =>
        /\ calculate_fisher_information_full_truth(event_file).status = "ok"
        /\ FullBinsTotal = calculate_fisher_information_full_truth(event_file).value
        /\ SigmaBinsTotal = Dot(morphing.theta_matrix, SumOver(AnyEvent))

\* the histogram side of the statement holds: the bins add up to the
\* per-event informations and to the cross section of the filtered events;
\* the full truth-level request returns only for an empty file
BinsAddUpToFilteredEvents ==
    HistogramReturned =>
        /\ FullBinsTotal = FilteredEventsInformation
        /\ SigmaBinsTotal = Dot(morphing.theta_matrix, SumOver(AnyEvent))
        /\ calculate_fisher_information_full_truth(event_file) =
               IF Len(event_file) = 0 THEN Returned(ZeroMatrix(n_parameters))
               ELSE Raised("TypeError")

\* C28: no request changes a field set at construction or the matrix handed to
\* project/profile, and a request repeated on the same engine with the same
\* arguments ends with the same outcome as the first time
ConstructedFields == <<settings, morpher, morphing, event_file, luminosity>>

RepeatedRequest == RequestEnded /\ previous.op = op /\ previous.args = RequestArgs

ObservableEnded == reader.pc \in {"constructed", "failed"}

IsString(e) == e.kind # "callable"

FailsByUnresolvedName(e) ==
    e.kind \in {"var", "gt", "lt", "call"} /\ e.name \notin builtins

FailsOtherwise(e) ==
    \/ e.kind = "malformed"
    \/ e.kind = "div" /\ IsZero(e.c)

C29_ObservableConstruction ==
    ObservableEnded =>
        LET e == reader.args.val_expression
        IN  /\ IsString(e) => reader.evaluations = 1
            /\ (IsString(e) /\ FailsByUnresolvedName(e)) =>
                    reader.pc = "constructed" /\ reader.fields = reader.args
            /\ (IsString(e) /\ FailsOtherwise(e)) => reader.pc = "failed"
            /\ ~IsString(e) =>
                    /\ reader.invocations = 0
                    /\ reader.evaluations = 0
                    /\ reader.pc = "constructed"
                    /\ reader.fields = reader.args

C29_Witness ==
    /\ reader.pc = "constructed"
    /\ reader.args.val_expression = Expr("gt", "b", FromInt(50))
    /\ reader.evaluations = 1
    /\ reader.fields = reader.args

\* a malformed string ends the construction with the SyntaxError
MalformedStringRaises ==
    (ObservableEnded /\ reader.args.val_expression = Malformed) =>
        reader.pc = "failed" /\ reader.raised = "SyntaxError"

\* a string that evaluates is accepted
EvaluatedStringIsAccepted ==
    (ObservableEnded /\ IsString(reader.args.val_expression)
        /\ ~FailsByUnresolvedName(reader.args.val_expression)
        /\ ~FailsOtherwise(reader.args.val_expression)) =>
        reader.pc = "constructed" /\ reader.raised = "none"

====
